---- MODULE Spec2Model ----
(***************************************************************************)
(* Model of the unregex tokenizers (package format): the shared scan       *)
(* primitives of format.go and the TokenizeRegex loop of the five          *)
(* dialects (go, pcre, posix, js, python), the format registry, the        *)
(* feature tables and the ExplainToken methods, driven as ExplainRegex     *)
(* drives them.                                                            *)
(*                                                                         *)
(* A pattern is a sequence of one-character strings.  Indices in the       *)
(* operators are the 0-based byte indices of the Go source; At and Slice   *)
(* translate them to the 1-based sequences of TLA+.                        *)
(***************************************************************************)
EXTENDS Integers, Sequences, FiniteSets, TLC

VARIABLES formatName, dialect, features, input, pattern, tokens, currentToken,
          i, scan, visits, explanations, pc

vars == <<formatName, dialect, features, input, pattern, tokens, currentToken,
          i, scan, visits, explanations, pc>>

----------------------------------------------------------------------------
(* Strings as sequences of characters *)

\* pattern[k] of the Go source (0-based)
At(s, k) == s[k + 1]

\* pattern[a:b] of the Go source (0-based, b exclusive)
Slice(s, a, b) == SubSeq(s, a + 1, b)

RECURSIVE Concat(_)
Concat(ts) == IF ts = <<>> THEN <<>> ELSE Head(ts) \o Concat(Tail(ts))

\* strings.IndexByte(s, c): index of the first c in s, -1 if there is none
RECURSIVE IndexByteFrom(_, _, _)
IndexByteFrom(s, c, k) ==
    IF k >= Len(s) THEN -1
    ELSE IF At(s, k) = c THEN k
    ELSE IndexByteFrom(s, c, k + 1)

IndexByte(s, c) == IndexByteFrom(s, c, 0)

----------------------------------------------------------------------------
(* Scan primitives, format.go *)

RECURSIVE FindClosingBracketFrom(_, _, _)
FindClosingBracketFrom(p, start, k) ==
    IF k >= Len(p) THEN -1
    ELSE IF At(p, k) = "]" /\ (k = start + 1 \/ At(p, k - 1) # "\\") THEN k
    ELSE FindClosingBracketFrom(p, start, k + 1)

\* as FindClosingBracket, but a backslash before the bracket is not looked at
FindClosingBracketNoEscape(p, start) ==
    LET r == IndexByte(Slice(p, start + 1, Len(p)), "]")
    IN  IF r < 0 THEN -1 ELSE r + start + 1

FindClosingBracket(p, start) == FindClosingBracketFrom(p, start, start + 1)

RECURSIVE FindClosingCurlyBraceFrom(_, _)
FindClosingCurlyBraceFrom(p, k) ==
    IF k >= Len(p) THEN -1
    ELSE IF At(p, k) = "}" /\ At(p, k - 1) # "\\" THEN k
    ELSE FindClosingCurlyBraceFrom(p, k + 1)

FindClosingCurlyBrace(p, start) == FindClosingCurlyBraceFrom(p, start + 1)

\* the loop of FindClosingParenthesis at index k with the nesting depth so far
RECURSIVE FindClosingParenthesisFrom(_, _, _)
FindClosingParenthesisFrom(p, k, depth) ==
    IF k >= Len(p) THEN -1
    ELSE IF At(p, k) = "\\" /\ k + 1 < Len(p)
    THEN FindClosingParenthesisFrom(p, k + 2, depth)
    ELSE IF At(p, k) = "("
    THEN FindClosingParenthesisFrom(p, k + 1, depth + 1)
    ELSE IF At(p, k) = ")"
    THEN IF depth - 1 = 0 THEN k
         ELSE FindClosingParenthesisFrom(p, k + 1, depth - 1)
    ELSE FindClosingParenthesisFrom(p, k + 1, depth)

\* as FindClosingParenthesis, but the first ) after start is taken
FindClosingParenthesisFirst(p, start) ==
    LET r == IndexByte(Slice(p, start + 1, Len(p)), ")")
    IN  IF r < 0 THEN -1 ELSE r + start + 1

FindClosingParenthesis(p, start) == FindClosingParenthesisFrom(p, start + 1, 1)

----------------------------------------------------------------------------
(* Pieces of the scan loop shared by the five TokenizeRegex methods.  The  *)
(* loop state is the pair (currentToken, tokens), kept as a record         *)
(* [cur, toks].                                                            *)

\* as Flush, but the pending literal run is dropped instead of emitted
FlushDropping(s) == [cur |-> <<>>, toks |-> s.toks]

\* as Flush, but without the test that the literal run is not empty
FlushAlways(s) == [cur |-> <<>>, toks |-> Append(s.toks, s.cur)]

\* if currentToken.Len() > 0 { tokens = append(tokens, currentToken.String()); currentToken.Reset() }
Flush(s) ==
    IF Len(s.cur) > 0 THEN [cur |-> <<>>, toks |-> Append(s.toks, s.cur)]
    ELSE s

\* tokens = append(tokens, tok)
Emit(s, tok) == [cur |-> s.cur, toks |-> Append(s.toks, tok)]

\* currentToken.WriteByte(char)
WriteByte(s, char) == [cur |-> Append(s.cur, char), toks |-> s.toks]

\* as Continue, but the branch has already advanced the cursor before the loop's i++
ContinueDoubleIncrement(s, k) == [i |-> k + 2, currentToken |-> s.cur, tokens |-> s.toks]

\* the end of an iteration that left the cursor at k: the loop's i++
Continue(s, k) == [i |-> k + 1, currentToken |-> s.cur, tokens |-> s.toks]

\* as IsQuantifier, without the question mark
IsQuantifierNoQuestion(char) == char \in {"*", "+"}

\* char == '*' || char == '+' || char == '?'
IsQuantifier(char) == char \in {"*", "+", "?"}

\* the single-character branches after the group branch: ) | ^ $ .
IsMeta(char) == char \in {")", "|", "^", "$", "."}

----------------------------------------------------------------------------
(* GoFormat.TokenizeRegex *)

\* as NamedPGroup, but a header that never closes is skipped as a whole
NamedPGroupSkipHeader(p, k) ==
    IF k + 3 < Len(p) /\ At(p, k + 3) = "<"
    THEN LET endName == IndexByte(Slice(p, k + 4, Len(p)), ">")
         IN  IF endName >= 0
             THEN [token |-> Slice(p, k, endName + k + 4 + 1), i |-> endName + k + 4]
             ELSE [token |-> <<"(">>, i |-> k + 3]
    ELSE [token |-> <<"(">>, i |-> k]

\* the `case 'P'` arm: (?P<name>
NamedPGroup(p, k) ==
    IF k + 3 < Len(p) /\ At(p, k + 3) = "<"
    THEN LET endName == IndexByte(Slice(p, k + 4, Len(p)), ">")
         IN  IF endName >= 0
             THEN [token |-> Slice(p, k, endName + k + 4 + 1), i |-> endName + k + 4]
             ELSE [token |-> <<"(">>, i |-> k]
    ELSE [token |-> <<"(">>, i |-> k]

\* the `char == '('` branch: the token it emits and where it leaves the cursor
GoGroup(p, k) ==
    IF k + 2 < Len(p) /\ At(p, k + 1) = "?"
    THEN CASE At(p, k + 2) = ":" -> [token |-> <<"(", "?", ":">>, i |-> k + 2]
           [] At(p, k + 2) = "=" -> [token |-> <<"(", "?", "=">>, i |-> k + 2]
           [] At(p, k + 2) = "P" -> NamedPGroup(p, k)
           [] OTHER -> [token |-> <<"(">>, i |-> k]
    ELSE [token |-> <<"(">>, i |-> k]

\* one iteration of the loop at cursor k
GoIter(p, k, cur, toks) ==
    LET char == At(p, k)
        s0 == [cur |-> cur, toks |-> toks]
        s1 == IF char = "[" THEN Flush(s0) ELSE s0
        endB == FindClosingBracket(p, k)
    IN  IF char = "[" /\ endB > k
        THEN Continue(Emit(s1, Slice(p, k, endB + 1)), endB)
        ELSE IF char = "\\" /\ k + 1 < Len(p)
        THEN Continue(Emit(Flush(s1), Slice(p, k, k + 2)), k + 1)
        ELSE LET s2 == IF char = "{" THEN Flush(s1) ELSE s1
                 endC == FindClosingCurlyBrace(p, k)
             IN  IF char = "{" /\ endC > k
                 THEN Continue(Emit(s2, Slice(p, k, endC + 1)), endC)
                 ELSE IF IsQuantifier(char)
                 THEN Continue(Emit(Flush(s2), <<char>>), k)
                 ELSE IF char = "("
                 THEN LET g == GoGroup(p, k)
                      IN  Continue(Emit(Flush(s2), g.token), g.i)
                 ELSE IF IsMeta(char)
                 THEN Continue(Emit(Flush(s2), <<char>>), k)
                 ELSE Continue(WriteByte(s2, char), k)

----------------------------------------------------------------------------
(* PcreFormat.TokenizeRegex *)

\* as AngleGroup, but a ">" that follows a backslash does not end the name
AngleGroupSkipEscaped(p, k) ==
    IF k + 3 < Len(p)
    THEN IF At(p, k + 3) = "=" THEN [token |-> <<"(", "?", "<", "=">>, i |-> k + 3]
         ELSE IF At(p, k + 3) = "!" THEN [token |-> <<"(", "?", "<", "!">>, i |-> k + 3]
         ELSE LET ends == {j \in (k + 3) .. (Len(p) - 1) :
                              At(p, j) = ">" /\ At(p, j - 1) # "\\"}
              IN  IF ends # {}
                  THEN LET end == CHOOSE j \in ends : \A m \in ends : j <= m
                       IN  [token |-> Slice(p, k, end + 1), i |-> end]
                  ELSE [token |-> <<"(">>, i |-> k]
    ELSE [token |-> <<"(">>, i |-> k]

\* the `case '<'` arm of pcre.go, js.go and python.go (the three are the same
\* text): (?<= and (?<! lookbehind, else (?<name>
AngleGroup(p, k) ==
    IF k + 3 < Len(p)
    THEN IF At(p, k + 3) = "=" THEN [token |-> <<"(", "?", "<", "=">>, i |-> k + 3]
         ELSE IF At(p, k + 3) = "!" THEN [token |-> <<"(", "?", "<", "!">>, i |-> k + 3]
         ELSE LET endName == IndexByte(Slice(p, k + 3, Len(p)), ">")
              IN  IF endName >= 0
                  THEN [token |-> Slice(p, k, endName + k + 3 + 1), i |-> endName + k + 3]
                  ELSE [token |-> <<"(">>, i |-> k]
    ELSE [token |-> <<"(">>, i |-> k]

\* as PcreGroup, without the `case '<'` arm
PcreGroupNoAngle(p, k) ==
    IF k + 2 < Len(p) /\ At(p, k + 1) = "?"
    THEN CASE At(p, k + 2) \in {":", "=", "!", ">"} ->
                [token |-> <<"(", "?", At(p, k + 2)>>, i |-> k + 2]
           [] At(p, k + 2) = "P" -> NamedPGroup(p, k)
           [] OTHER -> [token |-> <<"(">>, i |-> k]
    ELSE [token |-> <<"(">>, i |-> k]

PcreGroup(p, k) ==
    IF k + 2 < Len(p) /\ At(p, k + 1) = "?"
    THEN CASE At(p, k + 2) = ":" -> [token |-> <<"(", "?", ":">>, i |-> k + 2]
           [] At(p, k + 2) = "=" -> [token |-> <<"(", "?", "=">>, i |-> k + 2]
           [] At(p, k + 2) = "!" -> [token |-> <<"(", "?", "!">>, i |-> k + 2]
           [] At(p, k + 2) = "<" -> AngleGroup(p, k)
           [] At(p, k + 2) = ">" -> [token |-> <<"(", "?", ">">>, i |-> k + 2]
           [] At(p, k + 2) = "P" -> NamedPGroup(p, k)
           [] OTHER -> [token |-> <<"(">>, i |-> k]
    ELSE [token |-> <<"(">>, i |-> k]

PcreQuantifierNoPossessive(p, k) == [token |-> <<At(p, k)>>, i |-> k]

\* the quantifier branch: a following + makes a possessive two-character token
PcreQuantifier(p, k) ==
    IF k + 1 < Len(p) /\ At(p, k + 1) = "+"
    THEN [token |-> <<At(p, k), "+">>, i |-> k + 1]
    ELSE [token |-> <<At(p, k)>>, i |-> k]

PcreIter(p, k, cur, toks) ==
    LET char == At(p, k)
        s0 == [cur |-> cur, toks |-> toks]
        s1 == IF char = "[" THEN Flush(s0) ELSE s0
        endB == FindClosingBracket(p, k)
    IN  IF char = "[" /\ endB > k
        THEN Continue(Emit(s1, Slice(p, k, endB + 1)), endB)
        ELSE IF char = "\\" /\ k + 1 < Len(p)
        THEN Continue(Emit(Flush(s1), Slice(p, k, k + 2)), k + 1)
        ELSE LET s2 == IF char = "{" THEN Flush(s1) ELSE s1
                 endC == FindClosingCurlyBrace(p, k)
             IN  IF char = "{" /\ endC > k
                 THEN Continue(Emit(s2, Slice(p, k, endC + 1)), endC)
                 ELSE IF IsQuantifier(char)
                 THEN LET q == PcreQuantifier(p, k)
                      IN  Continue(Emit(Flush(s2), q.token), q.i)
                 ELSE IF char = "("
                 THEN LET g == PcreGroup(p, k)
                      IN  Continue(Emit(Flush(s2), g.token), g.i)
                 ELSE IF IsMeta(char)
                 THEN Continue(Emit(Flush(s2), <<char>>), k)
                 ELSE Continue(WriteByte(s2, char), k)

----------------------------------------------------------------------------
(* PosixFormat.TokenizeRegex *)

\* strings.Index(s, ":]"): index of the first ":]" in s, -1 if there is none
RECURSIVE IndexColonBracketFrom(_, _)
IndexColonBracketFrom(s, k) ==
    IF k + 1 >= Len(s) THEN -1
    ELSE IF At(s, k) = ":" /\ At(s, k + 1) = "]" THEN k
    ELSE IndexColonBracketFrom(s, k + 1)

IndexColonBracket(s) == IndexColonBracketFrom(s, 0)

\* as PosixClassEnd, but the class ends at the "]" that follows the first ":]"
PosixClassEndAtMarker(p, k) ==
    IF k + 2 < Len(p) /\ At(p, k + 1) = "[" /\ At(p, k + 2) = ":"
    THEN LET end == IndexColonBracket(Slice(p, k, Len(p)))
         IN  IF end > 3 /\ k + end + 2 < Len(p) /\ At(p, k + end + 2) = "]"
             THEN k + end + 2
             ELSE -1
    ELSE -1

\* the POSIX character class check of the bracket branch: the index of the
\* closing bracket when the check emits the token, -1 when it does not
PosixClassEnd(p, k) ==
    IF k + 2 < Len(p) /\ At(p, k + 1) = "[" /\ At(p, k + 2) = ":"
    THEN LET end == IndexColonBracket(Slice(p, k, Len(p)))
         IN  IF end > 3
             THEN LET endBracket == FindClosingBracket(p, k)
                  IN  IF endBracket > k + end + 2 THEN endBracket ELSE -1
             ELSE -1
    ELSE -1

PosixIter(p, k, cur, toks) ==
    LET char == At(p, k)
        s0 == [cur |-> cur, toks |-> toks]
        s1 == IF char = "[" THEN Flush(s0) ELSE s0
        endP == PosixClassEnd(p, k)
        endB == FindClosingBracket(p, k)
    IN  IF char = "[" /\ endP >= 0
        THEN Continue(Emit(s1, Slice(p, k, endP + 1)), endP)
        ELSE IF char = "[" /\ endB > k
        THEN Continue(Emit(s1, Slice(p, k, endB + 1)), endB)
        ELSE IF char = "\\" /\ k + 1 < Len(p)
        THEN Continue(Emit(Flush(s1), Slice(p, k, k + 2)), k + 1)
        ELSE LET s2 == IF char = "{" THEN Flush(s1) ELSE s1
                 endC == FindClosingCurlyBrace(p, k)
             IN  IF char = "{" /\ endC > k
                 THEN Continue(Emit(s2, Slice(p, k, endC + 1)), endC)
                 ELSE IF IsQuantifier(char)
                 THEN Continue(Emit(Flush(s2), <<char>>), k)
                 ELSE IF char = "(" \/ IsMeta(char)
                 THEN Continue(Emit(Flush(s2), <<char>>), k)
                 ELSE Continue(WriteByte(s2, char), k)

----------------------------------------------------------------------------
(* JsFormat.TokenizeRegex *)

\* strings.LastIndex(s, "/"): index of the last / in s, -1 if there is none
RECURSIVE LastIndexSlashFrom(_, _)
LastIndexSlashFrom(s, k) ==
    IF k < 0 THEN -1
    ELSE IF At(s, k) = "/" THEN k
    ELSE LastIndexSlashFrom(s, k - 1)

LastIndexSlashFirst(s) == IndexByte(s, "/")

LastIndexSlash(s) == LastIndexSlashFrom(s, Len(s) - 1)

\* the /pattern/flags pre-pass: the pattern left to scan and the tokens so far
JsPrepass(p) ==
    IF Len(p) > 2 /\ At(p, 0) = "/"
    THEN LET lastSlashPos == LastIndexSlash(p)
             flags == Slice(p, lastSlashPos + 1, Len(p))
         IN  IF lastSlashPos > 0 /\ lastSlashPos < Len(p) - 1
             THEN [pattern |-> Slice(p, 1, lastSlashPos),
                   tokens  |-> IF Len(flags) > 0 THEN << <<"/">> \o flags >> ELSE <<>>]
             ELSE IF At(p, 0) = "/" /\ At(p, Len(p) - 1) = "/"
             THEN [pattern |-> Slice(p, 1, Len(p) - 1), tokens |-> <<>>]
             ELSE [pattern |-> p, tokens |-> <<>>]
    ELSE [pattern |-> p, tokens |-> <<>>]

JsGroup(p, k) ==
    IF k + 2 < Len(p) /\ At(p, k + 1) = "?"
    THEN CASE At(p, k + 2) = ":" -> [token |-> <<"(", "?", ":">>, i |-> k + 2]
           [] At(p, k + 2) = "=" -> [token |-> <<"(", "?", "=">>, i |-> k + 2]
           [] At(p, k + 2) = "!" -> [token |-> <<"(", "?", "!">>, i |-> k + 2]
           [] At(p, k + 2) = "<" -> AngleGroup(p, k)
           [] OTHER -> [token |-> <<"(">>, i |-> k]
    ELSE [token |-> <<"(">>, i |-> k]

\* the quantifier branch of js.go and python.go: a following ? makes a
\* non-greedy two-character token
NonGreedyQuantifier(p, k) ==
    IF k + 1 < Len(p) /\ At(p, k + 1) = "?"
    THEN [token |-> <<At(p, k), "?">>, i |-> k + 1]
    ELSE [token |-> <<At(p, k)>>, i |-> k]

\* as JsIter, but \u with the four characters after it is one token
JsIterLongEscape(p, k, cur, toks) ==
    LET char == At(p, k)
        s0 == [cur |-> cur, toks |-> toks]
        s1 == IF char = "[" THEN Flush(s0) ELSE s0
        endB == FindClosingBracket(p, k)
    IN  IF char = "[" /\ endB > k
        THEN Continue(Emit(s1, Slice(p, k, endB + 1)), endB)
        ELSE IF char = "\\" /\ k + 1 < Len(p)
        THEN IF At(p, k + 1) = "u" /\ k + 5 < Len(p)
             THEN Continue(Emit(Flush(s1), Slice(p, k, k + 6)), k + 5)
             ELSE Continue(Emit(Flush(s1), Slice(p, k, k + 2)), k + 1)
        ELSE LET s2 == IF char = "{" THEN Flush(s1) ELSE s1
                 endC == FindClosingCurlyBrace(p, k)
             IN  IF char = "{" /\ endC > k
                 THEN Continue(Emit(s2, Slice(p, k, endC + 1)), endC)
                 ELSE IF IsQuantifier(char)
                 THEN LET q == NonGreedyQuantifier(p, k)
                      IN  Continue(Emit(Flush(s2), q.token), q.i)
                 ELSE IF char = "("
                 THEN LET g == JsGroup(p, k)
                      IN  Continue(Emit(Flush(s2), g.token), g.i)
                 ELSE IF IsMeta(char)
                 THEN Continue(Emit(Flush(s2), <<char>>), k)
                 ELSE Continue(WriteByte(s2, char), k)

JsIter(p, k, cur, toks) ==
    LET char == At(p, k)
        s0 == [cur |-> cur, toks |-> toks]
        s1 == IF char = "[" THEN Flush(s0) ELSE s0
        endB == FindClosingBracket(p, k)
    IN  IF char = "[" /\ endB > k
        THEN Continue(Emit(s1, Slice(p, k, endB + 1)), endB)
        ELSE IF char = "\\" /\ k + 1 < Len(p)
        THEN Continue(Emit(Flush(s1), Slice(p, k, k + 2)), k + 1)
        ELSE LET s2 == IF char = "{" THEN Flush(s1) ELSE s1
                 endC == FindClosingCurlyBrace(p, k)
             IN  IF char = "{" /\ endC > k
                 THEN Continue(Emit(s2, Slice(p, k, endC + 1)), endC)
                 ELSE IF IsQuantifier(char)
                 THEN LET q == NonGreedyQuantifier(p, k)
                      IN  Continue(Emit(Flush(s2), q.token), q.i)
                 ELSE IF char = "("
                 THEN LET g == JsGroup(p, k)
                      IN  Continue(Emit(Flush(s2), g.token), g.i)
                 ELSE IF IsMeta(char)
                 THEN Continue(Emit(Flush(s2), <<char>>), k)
                 ELSE Continue(WriteByte(s2, char), k)

----------------------------------------------------------------------------
(* PythonFormat.TokenizeRegex *)

HexDigits ==
    {"0", "1", "2", "3", "4", "5", "6", "7", "8", "9",
     "a", "b", "c", "d", "e", "f", "A", "B", "C", "D", "E", "F"}

isHexDigit(b) == b \in HexDigits

\* the letters accepted inside a leading inline-flags group
PythonFlagLetters == {"a", "i", "L", "m", "s", "u", "x"}

\* the raw-string pre-pass: r" r' R" R' becomes the first token
PythonRawPrefix(p) ==
    IF Len(p) > 0 /\ At(p, 0) \in {"r", "R"} /\ Len(p) > 1 /\ At(p, 1) \in {"\"", "'"}
    THEN [pattern |-> Slice(p, 2, Len(p)), tokens |-> << Slice(p, 0, 2) >>]
    ELSE [pattern |-> p, tokens |-> <<>>]

PythonInlineFlagsAcceptEmpty(r) ==
    LET p == r.pattern
        flagEnd == IndexByte(p, ")")
        isFlag == \A j \in 2 .. (flagEnd - 1) : At(p, j) \in PythonFlagLetters
    IN  IF Len(p) > 2 /\ At(p, 0) = "(" /\ At(p, 1) = "?" /\ flagEnd >= 2 /\ isFlag
        THEN [pattern |-> Slice(p, flagEnd + 1, Len(p)),
              tokens  |-> Append(r.tokens, Slice(p, 0, flagEnd + 1))]
        ELSE r

\* the inline-flags pre-pass on what the raw-string pre-pass left
PythonInlineFlags(r) ==
    LET p == r.pattern
        flagEnd == IndexByte(p, ")")
        isFlag == \A j \in 2 .. (flagEnd - 1) : At(p, j) \in PythonFlagLetters
    IN  IF Len(p) > 2 /\ At(p, 0) = "(" /\ At(p, 1) = "?" /\ flagEnd > 2 /\ isFlag
        THEN [pattern |-> Slice(p, flagEnd + 1, Len(p)),
              tokens  |-> Append(r.tokens, Slice(p, 0, flagEnd + 1))]
        ELSE r

PythonPrepass(p) == PythonInlineFlags(PythonRawPrefix(p))

\* the \xhh arm: the end of the hex digits, at most two, clamped to the pattern
RECURSIVE HexEndFrom(_, _, _)
HexEndFrom(p, j, hexEnd) ==
    IF j >= hexEnd THEN hexEnd
    ELSE IF ~isHexDigit(At(p, j)) THEN j
    ELSE HexEndFrom(p, j + 1, hexEnd)

HexEnd(p, k) == HexEndFrom(p, k + 2, IF k + 4 > Len(p) THEN Len(p) ELSE k + 4)

\* the escape branch (char is a backslash and k+1 < len): ok is FALSE when the
\* branch ends without `continue` and the iteration falls through
PythonEscape(p, k) ==
    IF k + 2 < Len(p) /\ At(p, k + 1) = "x"
    THEN [ok |-> TRUE, token |-> Slice(p, k, HexEnd(p, k)), i |-> HexEnd(p, k) - 1]
    ELSE IF k + 2 < Len(p) /\ At(p, k + 1) = "u"
    THEN IF k + 6 <= Len(p) /\ \A j \in 2 .. 5 : isHexDigit(At(p, k + j))
         THEN [ok |-> TRUE, token |-> Slice(p, k, k + 6), i |-> k + 5]
         ELSE [ok |-> FALSE, token |-> <<>>, i |-> k]
    ELSE IF k + 2 < Len(p) /\ At(p, k + 1) = "U"
    THEN IF k + 10 <= Len(p) /\ \A j \in 2 .. 9 : isHexDigit(At(p, k + j))
         THEN [ok |-> TRUE, token |-> Slice(p, k, k + 10), i |-> k + 9]
         ELSE [ok |-> FALSE, token |-> <<>>, i |-> k]
    ELSE IF k + 2 < Len(p) /\ At(p, k + 1) = "N" /\ At(p, k + 2) = "{"
    THEN LET end == IndexByte(Slice(p, k + 3, Len(p)), "}")
         IN  IF end >= 0
             THEN [ok |-> TRUE, token |-> Slice(p, k, k + end + 4), i |-> k + end + 3]
             ELSE [ok |-> FALSE, token |-> <<>>, i |-> k]
    ELSE [ok |-> TRUE, token |-> Slice(p, k, k + 2), i |-> k + 1]

\* the `case 'P'` arm of python.go: (?P<name> and (?P=name)
PythonPGroup(p, k) ==
    LET endName == IndexByte(Slice(p, k + 4, Len(p)), ">")
        j == IndexByte(Slice(p, k + 4, Len(p)), ")")
    IN  IF k + 3 < Len(p) /\ At(p, k + 3) = "<" /\ endName >= 0
        THEN [token |-> Slice(p, k, endName + k + 4 + 1), i |-> endName + k + 4]
        ELSE IF k + 3 < Len(p) /\ At(p, k + 3) = "=" /\ j >= 0
        THEN [token |-> Slice(p, k, j + k + 4 + 1), i |-> j + k + 4]
        ELSE [token |-> <<"(">>, i |-> k]

PythonGroup(p, k) ==
    IF k + 2 < Len(p) /\ At(p, k + 1) = "?"
    THEN CASE At(p, k + 2) = ":" -> [token |-> <<"(", "?", ":">>, i |-> k + 2]
           [] At(p, k + 2) = "=" -> [token |-> <<"(", "?", "=">>, i |-> k + 2]
           [] At(p, k + 2) = "!" -> [token |-> <<"(", "?", "!">>, i |-> k + 2]
           [] At(p, k + 2) = "<" -> AngleGroup(p, k)
           [] At(p, k + 2) = "P" -> PythonPGroup(p, k)
           [] OTHER -> [token |-> <<"(">>, i |-> k]
    ELSE [token |-> <<"(">>, i |-> k]

PythonIter(p, k, cur, toks) ==
    LET char == At(p, k)
        s0 == [cur |-> cur, toks |-> toks]
        s1 == IF char = "[" THEN Flush(s0) ELSE s0
        endB == FindClosingBracket(p, k)
        isEsc == char = "\\" /\ k + 1 < Len(p)
        e == PythonEscape(p, k)
    IN  IF char = "[" /\ endB > k
        THEN Continue(Emit(s1, Slice(p, k, endB + 1)), endB)
        ELSE IF isEsc /\ e.ok
        THEN Continue(Emit(Flush(s1), e.token), e.i)
        ELSE LET s2 == IF isEsc \/ char = "{" THEN Flush(s1) ELSE s1
                 endC == FindClosingCurlyBrace(p, k)
             IN  IF char = "{" /\ endC > k
                 THEN Continue(Emit(s2, Slice(p, k, endC + 1)), endC)
                 ELSE IF IsQuantifier(char)
                 THEN LET q == NonGreedyQuantifier(p, k)
                      IN  Continue(Emit(Flush(s2), q.token), q.i)
                 ELSE IF char = "("
                 THEN LET g == PythonGroup(p, k)
                      IN  Continue(Emit(Flush(s2), g.token), g.i)
                 ELSE IF IsMeta(char)
                 THEN Continue(Emit(Flush(s2), <<char>>), k)
                 ELSE Continue(WriteByte(s2, char), k)

----------------------------------------------------------------------------
(* ExplainToken.  An explanation is kept as the format string and the      *)
(* arguments of the fmt.Sprintf call that builds it; a slice expression    *)
(* whose bounds are out of range yields OutOfRange, and an explanation     *)
(* built from it is Panic.                                                 *)

\* the value of a slice expression that panics at run time
OutOfRange == <<"panic">>

\* the call has panicked instead of returning a string
Panic == [format |-> "panic: slice bounds out of range", args |-> <<>>]

\* s[a:b] with the bounds check of the Go runtime
SliceOf(s, a, b) ==
    IF 0 <= a /\ a <= b /\ b <= Len(s) THEN Slice(s, a, b) ELSE OutOfRange

\* fmt.Sprintf(format, args...)
Sprintf(format, args) ==
    IF \E n \in 1 .. Len(args) : args[n] = OutOfRange THEN Panic
    ELSE [format |-> format, args |-> args]

\* return "text"
Text(t) == [format |-> t, args |-> <<>>]

\* strings.HasPrefix(s, prefix)
HasPrefix(s, prefix) ==
    Len(s) >= Len(prefix) /\ SubSeq(s, 1, Len(prefix)) = prefix

\* strings.HasSuffix(s, suffix)
HasSuffix(s, suffix) ==
    Len(s) >= Len(suffix) /\ SubSeq(s, Len(s) - Len(suffix) + 1, Len(s)) = suffix

\* strings.Index(s, substr): index of the first occurrence, -1 if there is none
RECURSIVE IndexFrom(_, _, _)
IndexFrom(s, substr, k) ==
    IF k + Len(substr) > Len(s) THEN -1
    ELSE IF Slice(s, k, k + Len(substr)) = substr THEN k
    ELSE IndexFrom(s, substr, k + 1)

Index(s, substr) == IndexFrom(s, substr, 0)

\* strings.Contains(s, substr)
Contains(s, substr) == Index(s, substr) >= 0

\* strings.Split(s, sep) for a one-character separator
RECURSIVE Split(_, _)
Split(s, sep) ==
    LET k == IndexByte(s, sep)
    IN  IF k < 0 THEN <<s>>
        ELSE <<Slice(s, 0, k)>> \o Split(Slice(s, k + 1, Len(s)), sep)

NamedGroupNameOffByOne(token, n) == SliceOf(token, n + 1, Len(token) - 1)

\* name := token[n : len(token)-1] of the named-group and named-reference cases
NamedGroupName(token, n) == SliceOf(token, n, Len(token) - 1)

\* the case of a bracket expression [...]
ExplainBracket(token) ==
    IF Len(token) > 2 /\ At(token, 1) = "^"
    THEN Sprintf("Matches any character NOT in the set: %s",
                 <<SliceOf(token, 2, Len(token) - 1)>>)
    ELSE Sprintf("Matches any character in the set: %s",
                 <<SliceOf(token, 1, Len(token) - 1)>>)

ExplainBraceNoOpenEnd(token) ==
    LET content == SliceOf(token, 1, Len(token) - 1)
        parts == Split(content, ",")
    IN  IF content = OutOfRange THEN Panic
        ELSE IF Contains(content, <<",">>) /\ Len(parts) = 2
        THEN Sprintf("Matches between %s and %s occurrences of the preceding element",
                     <<parts[1], parts[2]>>)
        ELSE Sprintf("Matches exactly %s occurrences of the preceding element",
                     <<content>>)

\* the case of a brace quantifier {...}
ExplainBrace(token) ==
    LET content == SliceOf(token, 1, Len(token) - 1)
        parts == Split(content, ",")
    IN  IF content = OutOfRange THEN Panic
        ELSE IF Contains(content, <<",">>) /\ Len(parts) = 2
        THEN IF parts[2] = <<>>
             THEN Sprintf("Matches at least %s occurrences of the preceding element",
                          <<parts[1]>>)
             ELSE Sprintf("Matches between %s and %s occurrences of the preceding element",
                          <<parts[1], parts[2]>>)
        ELSE Sprintf("Matches exactly %s occurrences of the preceding element",
                     <<content>>)

\* the default case: a literal character or string
ExplainLiteral(token) ==
    IF Len(token) = 1
    THEN Sprintf("Matches the character '%s' literally", <<token>>)
    ELSE Sprintf("Matches the string '%s' literally", <<token>>)

\* the default case of the escape switches: the escaped character itself
ExplainEscapedChar(sequence) ==
    Sprintf("Matches the character '%c' literally", << <<At(sequence, 1)>> >>)

\* the case '1' ... '9' of the escape switches
ExplainGroupReference(sequence) ==
    Sprintf("Backreference to capturing group %c", << <<At(sequence, 1)>> >>)

\* the cases \k<name>, \g<name>, \p{name}, \P{name}: the name between
\* sequence[3:] and the first closer in it, if the sequence is longer than
\* minLen and has the opener at index 2
ExplainDelimited(sequence, minLen, opener, closer, format, invalid) ==
    IF Len(sequence) > minLen /\ At(sequence, 2) = opener
    THEN LET rest == SliceOf(sequence, 3, Len(sequence))
             end == IndexByte(rest, closer)
         IN  IF rest = OutOfRange THEN Panic
             ELSE IF end >= 0
             THEN Sprintf(format, <<SliceOf(sequence, 3, 3 + end)>>)
             ELSE Text(invalid)
    ELSE Text(invalid)

\* the cases \xhh, \uhhhh, \Uhhhhhhhh: n hex digits after the letter
ExplainHex(sequence, n, format, invalid) ==
    IF Len(sequence) >= n + 2 /\ \A j \in 2 .. (n + 1) : isHexDigit(At(sequence, j))
    THEN Sprintf(format, <<SliceOf(sequence, 2, n + 2)>>)
    ELSE Text(invalid)

\* "Flags: " + strings.Join(explanations, ", "): one explanation per flag
ExplainFlags(flags, known) ==
    IF flags = OutOfRange THEN Panic
    ELSE IF flags = <<>> THEN Text("No flags specified")
    ELSE [format |-> "Flags: %s",
          args |-> [n \in 1 .. Len(flags) |->
                       IF flags[n] \in DOMAIN known THEN Text(known[flags[n]])
                       ELSE Sprintf("%c: Unknown flag", << <<flags[n]>> >>)]]

\* the cases `token == ...` of GoFormat.ExplainToken
GoFixedTokens ==
    <<"^">> :> "Matches the start of a line" @@
    <<"$">> :> "Matches the end of a line" @@
    <<".">> :> "Matches any single character except newline" @@
    <<"*">> :> "Matches 0 or more of the preceding element" @@
    <<"+">> :> "Matches 1 or more of the preceding element" @@
    <<"?">> :> "Matches 0 or 1 of the preceding element" @@
    <<"|">> :> "Acts as an OR operator - matches the expression before or after the |" @@
    <<"(">> :> "Start of a capturing group" @@
    <<")">> :> "End of a capturing group" @@
    <<"(", "?", ":">> :> "Start of a non-capturing group - groups the expression but doesn't create a capture group" @@
    <<"(", "?", "=">> :> "Start of a positive lookahead - matches if the pattern inside matches, but doesn't consume characters"

\* the single-character cases of explainEscapeSequence
GoEscapes ==
    "d" :> "Matches any digit (0-9)" @@
    "D" :> "Matches any non-digit character" @@
    "w" :> "Matches any word character (alphanumeric plus underscore)" @@
    "W" :> "Matches any non-word character" @@
    "s" :> "Matches any whitespace character (space, tab, newline, etc.)" @@
    "S" :> "Matches any non-whitespace character" @@
    "b" :> "Matches a word boundary" @@
    "B" :> "Matches a non-word boundary" @@
    "A" :> "Matches the start of the string" @@
    "z" :> "Matches the end of the string" @@
    "n" :> "Matches a newline character" @@
    "t" :> "Matches a tab character" @@
    "r" :> "Matches a carriage return character" @@
    "f" :> "Matches a form feed character" @@
    "v" :> "Matches a vertical tab character" @@
    "0" :> "Matches a null character"

explainEscapeSequence(sequence) ==
    IF Len(sequence) < 2 THEN Text("Invalid escape sequence")
    ELSE IF At(sequence, 1) \in DOMAIN GoEscapes THEN Text(GoEscapes[At(sequence, 1)])
    ELSE ExplainEscapedChar(sequence)

\* GoFormat.ExplainToken
GoExplainToken(token) ==
    IF token \in DOMAIN GoFixedTokens THEN Text(GoFixedTokens[token])
    ELSE IF HasPrefix(token, <<"(", "?", "P", "<">>) /\ HasSuffix(token, <<">">>)
    THEN Sprintf("Start of a named capturing group called '%s'",
                 <<NamedGroupName(token, 4)>>)
    ELSE IF HasPrefix(token, <<"[">>) /\ HasSuffix(token, <<"]">>)
    THEN ExplainBracket(token)
    ELSE IF HasPrefix(token, <<"\\">>) THEN explainEscapeSequence(token)
    ELSE IF HasPrefix(token, <<"{">>) /\ HasSuffix(token, <<"}">>)
    THEN ExplainBrace(token)
    ELSE ExplainLiteral(token)

\* the cases `token == ...` of PcreFormat.ExplainToken
PcreFixedTokens ==
    <<"^">> :> "Matches the start of a line" @@
    <<"$">> :> "Matches the end of a line" @@
    <<".">> :> "Matches any single character except newline" @@
    <<"*">> :> "Matches 0 or more of the preceding element" @@
    <<"+">> :> "Matches 1 or more of the preceding element" @@
    <<"?">> :> "Matches 0 or 1 of the preceding element" @@
    <<"*", "+">> :> "Possessive match of 0 or more of the preceding element (never gives up the match)" @@
    <<"+", "+">> :> "Possessive match of 1 or more of the preceding element (never gives up the match)" @@
    <<"?", "+">> :> "Possessive match of 0 or 1 of the preceding element (never gives up the match)" @@
    <<"|">> :> "Acts as an OR operator - matches the expression before or after the |" @@
    <<"(">> :> "Start of a capturing group" @@
    <<")">> :> "End of a capturing group" @@
    <<"(", "?", ":">> :> "Start of a non-capturing group - groups the expression but doesn't create a capture group" @@
    <<"(", "?", "=">> :> "Start of a positive lookahead - matches if the pattern inside matches, but doesn't consume characters" @@
    <<"(", "?", "!">> :> "Start of a negative lookahead - matches if the pattern inside doesn't match, but doesn't consume characters" @@
    <<"(", "?", "<", "=">> :> "Start of a positive lookbehind - matches if the pattern inside matches immediately before current position" @@
    <<"(", "?", "<", "!">> :> "Start of a negative lookbehind - matches if the pattern inside doesn't match immediately before current position" @@
    <<"(", "?", ">">> :> "Start of an atomic group - once the group matches, the regex engine doesn't backtrack into it"

\* the single-character cases of explainPcreEscapeSequence
PcreEscapes ==
    "d" :> "Matches any digit (0-9)" @@
    "D" :> "Matches any non-digit character" @@
    "w" :> "Matches any word character (alphanumeric plus underscore)" @@
    "W" :> "Matches any non-word character" @@
    "s" :> "Matches any whitespace character (space, tab, newline, etc.)" @@
    "S" :> "Matches any non-whitespace character" @@
    "b" :> "Matches a word boundary" @@
    "B" :> "Matches a non-word boundary" @@
    "A" :> "Matches the start of the string" @@
    "Z" :> "Matches the end of the string or before the final newline" @@
    "z" :> "Matches the absolute end of the string" @@
    "G" :> "Matches the position where the previous match ended" @@
    "n" :> "Matches a newline character" @@
    "t" :> "Matches a tab character" @@
    "r" :> "Matches a carriage return character" @@
    "f" :> "Matches a form feed character" @@
    "v" :> "Matches a vertical tab character" @@
    "0" :> "Matches a null character" @@
    "Q" :> "Start of a quoted sequence (everything until \\E is treated as a literal)" @@
    "E" :> "End of a quoted sequence"

explainPcreEscapeSequence(sequence) ==
    IF Len(sequence) < 2 THEN Text("Invalid escape sequence")
    ELSE LET c == At(sequence, 1)
         IN  IF c \in DOMAIN PcreEscapes THEN Text(PcreEscapes[c])
             ELSE IF c = "k"
             THEN ExplainDelimited(sequence, 2, "<", ">",
                                   "Backreference to the named group '%s'",
                                   "Invalid named backreference")
             ELSE IF c \in {"1", "2", "3", "4", "5", "6", "7", "8", "9"}
             THEN ExplainGroupReference(sequence)
             ELSE IF c = "p"
             THEN ExplainDelimited(sequence, 2, "{", "}",
                                   "Matches a character with the unicode property '%s'",
                                   "Invalid unicode property")
             ELSE IF c = "P"
             THEN ExplainDelimited(sequence, 2, "{", "}",
                                   "Matches a character without the unicode property '%s'",
                                   "Invalid unicode property")
             ELSE ExplainEscapedChar(sequence)

\* the case of (?<name>: the prefix (?<, the suffix > and neither <? nor <!
IsAngleNamedGroup(token) ==
    /\ HasPrefix(token, <<"(", "?", "<">>)
    /\ HasSuffix(token, <<">">>)
    /\ ~Contains(token, <<"<", "?">>)
    /\ ~Contains(token, <<"<", "!">>)

\* PcreFormat.ExplainToken
PcreExplainToken(token) ==
    IF token \in DOMAIN PcreFixedTokens THEN Text(PcreFixedTokens[token])
    ELSE IF IsAngleNamedGroup(token)
    THEN Sprintf("Start of a named capturing group called '%s'",
                 <<NamedGroupName(token, 3)>>)
    ELSE IF HasPrefix(token, <<"(", "?", "P", "<">>) /\ HasSuffix(token, <<">">>)
    THEN Sprintf("Start of a named capturing group called '%s'",
                 <<NamedGroupName(token, 4)>>)
    ELSE IF HasPrefix(token, <<"[">>) /\ HasSuffix(token, <<"]">>)
    THEN ExplainBracket(token)
    ELSE IF HasPrefix(token, <<"\\">>) THEN explainPcreEscapeSequence(token)
    ELSE IF HasPrefix(token, <<"{">>) /\ HasSuffix(token, <<"}">>)
    THEN ExplainBrace(token)
    ELSE ExplainLiteral(token)

\* the cases `token == ...` of PosixFormat.ExplainToken
PosixFixedTokens ==
    <<"^">> :> "Matches the start of a line" @@
    <<"$">> :> "Matches the end of a line" @@
    <<".">> :> "Matches any single character" @@
    <<"*">> :> "Matches 0 or more of the preceding element" @@
    <<"+">> :> "Matches 1 or more of the preceding element" @@
    <<"?">> :> "Matches 0 or 1 of the preceding element" @@
    <<"|">> :> "Acts as an OR operator - matches the expression before or after the |" @@
    <<"(">> :> "Start of a capturing group" @@
    <<")">> :> "End of a capturing group"

\* the class names explainPosixCharClass knows
PosixClasses ==
    <<"a", "l", "n", "u", "m">> :> "Matches any alphanumeric character (a-z, A-Z, 0-9)" @@
    <<"a", "l", "p", "h", "a">> :> "Matches any alphabetic character (a-z, A-Z)" @@
    <<"a", "s", "c", "i", "i">> :> "Matches any ASCII character (0-127)" @@
    <<"b", "l", "a", "n", "k">> :> "Matches space and tab characters" @@
    <<"c", "n", "t", "r", "l">> :> "Matches control characters" @@
    <<"d", "i", "g", "i", "t">> :> "Matches decimal digits (0-9)" @@
    <<"g", "r", "a", "p", "h">> :> "Matches visible characters (not including space)" @@
    <<"l", "o", "w", "e", "r">> :> "Matches lowercase letters (a-z)" @@
    <<"p", "r", "i", "n", "t">> :> "Matches visible characters (including space)" @@
    <<"p", "u", "n", "c", "t">> :> "Matches punctuation characters" @@
    <<"s", "p", "a", "c", "e">> :> "Matches whitespace characters (space, tab, newline, etc.)" @@
    <<"u", "p", "p", "e", "r">> :> "Matches uppercase letters (A-Z)" @@
    <<"w", "o", "r", "d">> :> "Matches word characters (alphanumeric plus underscore)" @@
    <<"x", "d", "i", "g", "i", "t">> :> "Matches hexadecimal digits (0-9, a-f, A-F)"

\* the single-character cases of explainPosixEscapeSequence
PosixEscapes ==
    "n" :> "Matches a newline character" @@
    "t" :> "Matches a tab character" @@
    "r" :> "Matches a carriage return character"

\* as explainPosixCharClass, without the canned descriptions
explainPosixCharClassAllUnknown(className) ==
    IF className = OutOfRange THEN Panic
    ELSE Sprintf("Unknown POSIX character class '[:%s:]'", <<className>>)

explainPosixCharClass(className) ==
    IF className = OutOfRange THEN Panic
    ELSE IF className \in DOMAIN PosixClasses THEN Text(PosixClasses[className])
    ELSE Sprintf("Unknown POSIX character class '[:%s:]'", <<className>>)

explainPosixEscapeSequence(sequence) ==
    IF Len(sequence) < 2 THEN Text("Invalid escape sequence")
    ELSE LET c == At(sequence, 1)
         IN  IF c \in DOMAIN PosixEscapes THEN Text(PosixEscapes[c])
             ELSE IF c \in {"1", "2", "3", "4", "5", "6", "7", "8", "9"}
             THEN ExplainGroupReference(sequence)
             ELSE ExplainEscapedChar(sequence)

\* the bracket case of PosixFormat.ExplainToken: a [[:name:]] inside the
\* token is explained as a character class
PosixExplainBracket(token) ==
    LET start == Index(token, <<"[", "[", ":">>)
        end == Index(token, <<":", "]", "]">>)
    IN  IF /\ Contains(token, <<"[", "[", ":">>)
           /\ Contains(token, <<":", "]", "]">>)
           /\ start >= 0
           /\ end > start + 3
        THEN explainPosixCharClass(SliceOf(token, start + 3, end))
        ELSE ExplainBracket(token)

\* PosixFormat.ExplainToken
PosixExplainToken(token) ==
    IF token \in DOMAIN PosixFixedTokens THEN Text(PosixFixedTokens[token])
    ELSE IF HasPrefix(token, <<"[">>) /\ HasSuffix(token, <<"]">>)
    THEN PosixExplainBracket(token)
    ELSE IF HasPrefix(token, <<"\\">>) THEN explainPosixEscapeSequence(token)
    ELSE IF HasPrefix(token, <<"{">>) /\ HasSuffix(token, <<"}">>)
    THEN ExplainBrace(token)
    ELSE ExplainLiteral(token)

\* the cases `token == ...` of JsFormat.ExplainToken
JsFixedTokens ==
    <<"^">> :> "Matches the start of a line" @@
    <<"$">> :> "Matches the end of a line" @@
    <<".">> :> "Matches any single character except newline" @@
    <<"*">> :> "Matches 0 or more of the preceding element (greedy)" @@
    <<"+">> :> "Matches 1 or more of the preceding element (greedy)" @@
    <<"?">> :> "Matches 0 or 1 of the preceding element (greedy)" @@
    <<"*", "?">> :> "Matches 0 or more of the preceding element (non-greedy)" @@
    <<"+", "?">> :> "Matches 1 or more of the preceding element (non-greedy)" @@
    <<"?", "?">> :> "Matches 0 or 1 of the preceding element (non-greedy)" @@
    <<"|">> :> "Acts as an OR operator - matches the expression before or after the |" @@
    <<"(">> :> "Start of a capturing group" @@
    <<")">> :> "End of a capturing group" @@
    <<"(", "?", ":">> :> "Start of a non-capturing group - groups the expression but doesn't create a capture group" @@
    <<"(", "?", "=">> :> "Start of a positive lookahead - matches if the pattern inside matches, but doesn't consume characters" @@
    <<"(", "?", "!">> :> "Start of a negative lookahead - matches if the pattern inside doesn't match, but doesn't consume characters" @@
    <<"(", "?", "<", "=">> :> "Start of a positive lookbehind - matches if the pattern inside matches immediately before current position" @@
    <<"(", "?", "<", "!">> :> "Start of a negative lookbehind - matches if the pattern inside doesn't match immediately before current position"

\* the flags explainJsFlags knows
JsFlags ==
    "g" :> "g: Global search - find all matches rather than stopping after the first match" @@
    "i" :> "i: Case-insensitive search" @@
    "m" :> "m: Multi-line search - ^ and $ match start/end of each line" @@
    "s" :> "s: Dot-all mode - the dot (.) matches newlines" @@
    "u" :> "u: Unicode mode - treat pattern as a sequence of Unicode code points" @@
    "y" :> "y: Sticky mode - matches only from the index indicated by the lastIndex property" @@
    "d" :> "d: Generate indices for substring matches"

\* the single-character cases of explainJsEscapeSequence
JsEscapes ==
    "d" :> "Matches any digit (0-9)" @@
    "D" :> "Matches any non-digit character" @@
    "w" :> "Matches any word character (alphanumeric plus underscore)" @@
    "W" :> "Matches any non-word character" @@
    "s" :> "Matches any whitespace character (space, tab, newline, etc.)" @@
    "S" :> "Matches any non-whitespace character" @@
    "b" :> "Matches a word boundary" @@
    "B" :> "Matches a non-word boundary" @@
    "n" :> "Matches a newline character" @@
    "t" :> "Matches a tab character" @@
    "r" :> "Matches a carriage return character" @@
    "f" :> "Matches a form feed character" @@
    "v" :> "Matches a vertical tab character" @@
    "0" :> "Matches a null character"

explainJsFlags(flags) == ExplainFlags(flags, JsFlags)

explainJsEscapeSequence(sequence) ==
    IF Len(sequence) < 2 THEN Text("Invalid escape sequence")
    ELSE LET c == At(sequence, 1)
         IN  IF c \in DOMAIN JsEscapes THEN Text(JsEscapes[c])
             ELSE IF c = "k"
             THEN ExplainDelimited(sequence, 2, "<", ">",
                                   "Backreference to the named group '%s'",
                                   "Invalid named backreference")
             ELSE IF c \in {"1", "2", "3", "4", "5", "6", "7", "8", "9"}
             THEN ExplainGroupReference(sequence)
             ELSE IF c = "p"
             THEN ExplainDelimited(sequence, 2, "{", "}",
                      "Matches a character with the unicode property '%s' (requires u flag)",
                      "Invalid unicode property")
             ELSE IF c = "P"
             THEN ExplainDelimited(sequence, 2, "{", "}",
                      "Matches a character without the unicode property '%s' (requires u flag)",
                      "Invalid unicode property")
             ELSE IF c = "u"
             THEN ExplainHex(sequence, 4, "Matches the Unicode character U+%s",
                             "Invalid Unicode escape sequence")
             ELSE IF c = "x"
             THEN ExplainHex(sequence, 2, "Matches the character with hex code %s",
                             "Invalid hexadecimal escape sequence")
             ELSE ExplainEscapedChar(sequence)

\* JsFormat.ExplainToken
JsExplainToken(token) ==
    IF HasPrefix(token, <<"/">>) THEN explainJsFlags(SliceOf(token, 1, Len(token)))
    ELSE IF token \in DOMAIN JsFixedTokens THEN Text(JsFixedTokens[token])
    ELSE IF IsAngleNamedGroup(token)
    THEN Sprintf("Start of a named capturing group called '%s'",
                 <<NamedGroupName(token, 3)>>)
    ELSE IF HasPrefix(token, <<"[">>) /\ HasSuffix(token, <<"]">>)
    THEN ExplainBracket(token)
    ELSE IF HasPrefix(token, <<"\\">>) THEN explainJsEscapeSequence(token)
    ELSE IF HasPrefix(token, <<"{">>) /\ HasSuffix(token, <<"}">>)
    THEN ExplainBrace(token)
    ELSE ExplainLiteral(token)

\* the cases `token == ...` of PythonFormat.ExplainToken
PythonFixedTokens ==
    <<"^">> :> "Matches the start of a line" @@
    <<"$">> :> "Matches the end of a line" @@
    <<".">> :> "Matches any single character except newline" @@
    <<"*">> :> "Matches 0 or more of the preceding element (greedy)" @@
    <<"+">> :> "Matches 1 or more of the preceding element (greedy)" @@
    <<"?">> :> "Matches 0 or 1 of the preceding element (greedy)" @@
    <<"*", "?">> :> "Matches 0 or more of the preceding element (non-greedy)" @@
    <<"+", "?">> :> "Matches 1 or more of the preceding element (non-greedy)" @@
    <<"?", "?">> :> "Matches 0 or 1 of the preceding element (non-greedy)" @@
    <<"|">> :> "Acts as an OR operator - matches the expression before or after the |" @@
    <<"(">> :> "Start of a capturing group" @@
    <<")">> :> "End of a capturing group" @@
    <<"(", "?", ":">> :> "Start of a non-capturing group - groups the expression but doesn't create a capture group" @@
    <<"(", "?", "=">> :> "Start of a positive lookahead - matches if the pattern inside matches, but doesn't consume characters" @@
    <<"(", "?", "!">> :> "Start of a negative lookahead - matches if the pattern inside doesn't match, but doesn't consume characters" @@
    <<"(", "?", "<", "=">> :> "Start of a positive lookbehind - matches if the pattern inside matches immediately before current position" @@
    <<"(", "?", "<", "!">> :> "Start of a negative lookbehind - matches if the pattern inside doesn't match immediately before current position"

\* the flags explainPythonFlags knows
PythonFlags ==
    "a" :> "a: ASCII-only matching" @@
    "i" :> "i: Case-insensitive matching" @@
    "L" :> "L: Locale-dependent matching" @@
    "m" :> "m: Multi-line matching - ^ and $ match at line breaks" @@
    "s" :> "s: Dot matches all - the dot (.) matches any character including newline" @@
    "u" :> "u: Unicode matching" @@
    "x" :> "x: Verbose - whitespace and comments in pattern are ignored"

\* the single-character cases of explainPythonEscapeSequence
PythonEscapes ==
    "A" :> "Matches only at the start of the string" @@
    "Z" :> "Matches only at the end of the string" @@
    "d" :> "Matches any decimal digit (0-9)" @@
    "D" :> "Matches any non-digit character" @@
    "s" :> "Matches any whitespace character (space, tab, newline, etc.)" @@
    "S" :> "Matches any non-whitespace character" @@
    "w" :> "Matches any alphanumeric character (including underscore)" @@
    "W" :> "Matches any non-alphanumeric character" @@
    "b" :> "Matches a word boundary" @@
    "B" :> "Matches a non-word boundary" @@
    "n" :> "Matches a newline character" @@
    "t" :> "Matches a tab character" @@
    "r" :> "Matches a carriage return character" @@
    "f" :> "Matches a form feed character" @@
    "v" :> "Matches a vertical tab character" @@
    "a" :> "Matches a bell (BEL) character"

explainPythonFlags(flags) == ExplainFlags(flags, PythonFlags)

\* the case \N{name}: the closer is looked for in sequence[2:]
ExplainUnicodeName(sequence) ==
    IF Len(sequence) > 3 /\ At(sequence, 2) = "{"
    THEN LET rest == SliceOf(sequence, 2, Len(sequence))
             end == IndexByte(rest, "}")
         IN  IF rest = OutOfRange THEN Panic
             ELSE IF end > 0
             THEN Sprintf("Matches the Unicode character named '%s'",
                          <<SliceOf(sequence, 3, 2 + end)>>)
             ELSE Text("Invalid Unicode name escape sequence")
    ELSE Text("Invalid Unicode name escape sequence")

explainPythonEscapeSequence(sequence) ==
    IF Len(sequence) < 2 THEN Text("Invalid escape sequence")
    ELSE LET c == At(sequence, 1)
         IN  IF c \in DOMAIN PythonEscapes THEN Text(PythonEscapes[c])
             ELSE IF c \in {"1", "2", "3", "4", "5", "6", "7", "8", "9"}
             THEN ExplainGroupReference(sequence)
             ELSE IF c = "g"
             THEN ExplainDelimited(sequence, 3, "<", ">",
                                   "Backreference to the named group '%s'",
                                   "Invalid named backreference")
             ELSE IF c = "x"
             THEN ExplainHex(sequence, 2, "Matches the character with hex code %s",
                             "Invalid hexadecimal escape sequence")
             ELSE IF c = "u"
             THEN ExplainHex(sequence, 4, "Matches the Unicode character U+%s",
                             "Invalid Unicode escape sequence")
             ELSE IF c = "U"
             THEN ExplainHex(sequence, 8, "Matches the Unicode character U+%s",
                             "Invalid extended Unicode escape sequence")
             ELSE IF c = "N" THEN ExplainUnicodeName(sequence)
             ELSE ExplainEscapedChar(sequence)

\* the four raw-string prefixes
RawStringMarkers == {<<"r", "'">>, <<"r", "\"">>, <<"R", "'">>, <<"R", "\"">>}

\* PythonFormat.ExplainToken; the case of a (?...) token returns only for a
\* run of flag letters and otherwise leaves the switch for the last return
PythonExplainToken(token) ==
    IF \E m \in RawStringMarkers : HasPrefix(token, m)
    THEN Text("Raw string marker - backslashes are treated literally")
    ELSE IF HasPrefix(token, <<"(", "?">>) /\ HasSuffix(token, <<")">>) /\ Len(token) > 3
    THEN IF \A j \in 2 .. (Len(token) - 2) : At(token, j) \in PythonFlagLetters
         THEN explainPythonFlags(SliceOf(token, 2, Len(token) - 1))
         ELSE Sprintf("Unknown token: %s", <<token>>)
    ELSE IF token \in DOMAIN PythonFixedTokens THEN Text(PythonFixedTokens[token])
    ELSE IF HasPrefix(token, <<"(", "?", "P", "<">>) /\ HasSuffix(token, <<">">>)
    THEN Sprintf("Start of a named capturing group called '%s'",
                 <<NamedGroupName(token, 4)>>)
    ELSE IF HasPrefix(token, <<"(", "?", "P", "=">>) /\ HasSuffix(token, <<")">>)
    THEN Sprintf("Backreference to the named group '%s'",
                 <<NamedGroupName(token, 4)>>)
    ELSE IF HasPrefix(token, <<"[">>) /\ HasSuffix(token, <<"]">>)
    THEN ExplainBracket(token)
    ELSE IF HasPrefix(token, <<"\\">>) THEN explainPythonEscapeSequence(token)
    ELSE IF HasPrefix(token, <<"{">>) /\ HasSuffix(token, <<"}">>)
    THEN ExplainBrace(token)
    ELSE ExplainLiteral(token)

\* regexFormat.ExplainToken(token)
ExplainToken(d, token) ==
    CASE d = "go" -> GoExplainToken(token)
      [] d = "pcre" -> PcreExplainToken(token)
      [] d = "posix" -> PosixExplainToken(token)
      [] d = "js" -> JsExplainToken(token)
      [] d = "python" -> PythonExplainToken(token)

----------------------------------------------------------------------------
(* The format registry and the feature tables *)

GetFormatIgnoreCase(name) ==
    CASE name \in {"go"} -> "go"
      [] name \in {"pcre", "PCRE"} -> "pcre"
      [] name \in {"posix"} -> "posix"
      [] name \in {"js"} -> "js"
      [] name \in {"python"} -> "python"
      [] OTHER -> "go"

\* GetFormat(formatName): the dialect of the format object that is returned
GetFormat(name) ==
    CASE name = "go" -> "go"
      [] name = "pcre" -> "pcre"
      [] name = "posix" -> "posix"
      [] name = "js" -> "js"
      [] name = "python" -> "python"
      [] OTHER -> "go"

\* the ten feature constants
FeatureKeys ==
    {"lookahead", "lookbehind", "named_group", "atomic_group", "conditional",
     "possessive", "unicode_class", "recursion", "backreference", "named_backref"}

GoFeaturesWithLookbehind ==
    [lookahead |-> TRUE, lookbehind |-> TRUE, named_group |-> TRUE,
     atomic_group |-> FALSE, conditional |-> FALSE, possessive |-> FALSE,
     unicode_class |-> TRUE, recursion |-> FALSE, backreference |-> TRUE,
     named_backref |-> TRUE]

\* the map supportedFeatures of each HasFeature
GoFeatures ==
    [lookahead |-> TRUE, lookbehind |-> FALSE, named_group |-> TRUE,
     atomic_group |-> FALSE, conditional |-> FALSE, possessive |-> FALSE,
     unicode_class |-> TRUE, recursion |-> FALSE, backreference |-> TRUE,
     named_backref |-> TRUE]

PcreFeatures ==
    [lookahead |-> TRUE, lookbehind |-> TRUE, named_group |-> TRUE,
     atomic_group |-> TRUE, conditional |-> TRUE, possessive |-> TRUE,
     unicode_class |-> TRUE, recursion |-> TRUE, backreference |-> TRUE,
     named_backref |-> TRUE]

PosixFeatures ==
    [lookahead |-> FALSE, lookbehind |-> FALSE, named_group |-> FALSE,
     atomic_group |-> FALSE, conditional |-> FALSE, possessive |-> FALSE,
     unicode_class |-> FALSE, recursion |-> FALSE, backreference |-> TRUE,
     named_backref |-> FALSE]

\* as JsFeatures, without lookbehind
JsFeaturesNoLookbehind ==
    [lookahead |-> TRUE, lookbehind |-> FALSE, named_group |-> TRUE,
     atomic_group |-> FALSE, conditional |-> FALSE, possessive |-> FALSE,
     unicode_class |-> TRUE, recursion |-> FALSE, backreference |-> TRUE,
     named_backref |-> TRUE]

JsFeatures ==
    [lookahead |-> TRUE, lookbehind |-> TRUE, named_group |-> TRUE,
     atomic_group |-> FALSE, conditional |-> FALSE, possessive |-> FALSE,
     unicode_class |-> TRUE, recursion |-> FALSE, backreference |-> TRUE,
     named_backref |-> TRUE]

PythonFeatures ==
    [lookahead |-> TRUE, lookbehind |-> TRUE, named_group |-> TRUE,
     atomic_group |-> FALSE, conditional |-> FALSE, possessive |-> FALSE,
     unicode_class |-> TRUE, recursion |-> FALSE, backreference |-> TRUE,
     named_backref |-> TRUE]

supportedFeatures(d) ==
    CASE d = "go" -> GoFeatures
      [] d = "pcre" -> PcreFeatures
      [] d = "posix" -> PosixFeatures
      [] d = "js" -> JsFeatures
      [] d = "python" -> PythonFeatures

\* HasFeature(feature): the map lookup, false for a key the map does not hold
HasFeature(d, feature) ==
    IF feature \in DOMAIN supportedFeatures(d)
    THEN supportedFeatures(d)[feature]
    ELSE FALSE

----------------------------------------------------------------------------
(* Inputs *)

Dialects == {"go", "pcre", "posix", "js", "python"}

\* the names passed to GetFormat: the registered ones, the empty name, an
\* unregistered name and a registered name in upper case
FormatNames == Dialects \cup {"", "unknown", "PCRE"}

\* the keys HasFeature is asked for: the ten constants and an unknown key
QueriedFeatures == FeatureKeys \cup {"nonexistent"}

\* the greedy-bracket example of the tests and the spec
BracketFirstPattern == <<"[", "]", "a", "b", "c", "]">>

\* a bracket expression holding a POSIX class
PosixClassPattern == <<"[", "[", ":", "a", "l", "p", "h", "a", ":", "]", "]">>

\* named group, angle form
NamedAnglePattern == <<"(", "?", "<", "n", "a", "m", "e", ">", "a", "b", "c", ")">>

\* named group, P form
NamedPPattern == <<"(", "?", "P", "<", "n", "a", "m", "e", ">", "a", "b", "c", ")">>

\* escaped closing bracket
EscapedBracketPattern == <<"[", "\\", "]", "]">>

\* no closing bracket
UnterminatedPattern == <<"[", "i", "n", "v", "a", "l", "i", "d">>

\* negated class
NegatedClassPattern == <<"[", "^", "0", "-", "9", "]">>

\* brace quantifier
BracePattern == <<"a", "{", "2", ",", "3", "}">>

\* escaped closing brace
EscapedBracePattern == <<"{", "\\", "}", "}">>

\* JS envelope with flags
JsFlagsPattern == <<"/", "a", "b", "c", "/", "g", "i">>

\* JS envelope with an empty body
JsEmptyBodyPattern == <<"/", "/", "g">>

\* Python raw prefix, inline flags, non-greedy
PythonRawPattern == <<"r", "\"", "(", "?", "i", ")", "a", "+", "?">>

\* Python named backreference
PythonBackrefPattern == <<"(", "?", "P", "=", "n", "a", "m", "e", ")">>

\* four-digit code point escape
UnicodeEscapePattern == <<"\\", "u", "0", "0", "4", "1">>

\* eight-digit code point escape
LongUnicodeEscapePattern == <<"\\", "U", "0", "0", "0", "1", "F", "6", "0", "0">>

\* hex escape cut short by a non-digit
HexEscapePattern == <<"a", "\\", "x", "4", "g">>

HexPairPattern == <<"\\", "x", "4", "1">>

\* character by name
NamedCharPattern == <<"\\", "N", "{", "D", "A", "S", "H", "}">>

\* possessive quantifiers
PossessivePattern == <<"a", "+", "+", "b", "*", "+", "c", "?", "+">>

\* positive lookbehind
LookbehindPattern == <<"(", "?", "<", "=", "f", "o", "o", ")", "b", "a", "r">>

\* negative lookbehind
NegLookbehindPattern == <<"(", "?", "<", "!", "a", ")">>

\* atomic group
AtomicPattern == <<"(", "?", ">", "a", "t", "o", "m", ")">>

\* lookaheads and alternation
LookaheadPattern == <<"f", "o", "o", "(", "?", "=", "b", "a", "r", ")", "|", "(", "?", "!", "b", ")">>

\* non-capturing group, anchors, dot
NonCapturingPattern == <<"^", "(", "?", ":", "a", "b", "c", ")", ".", "$">>

\* the parenthesis examples of the tests: nested, two inner groups, escaped
\* closer, no closer
NestedParenPattern == <<"(", "a", "(", "b", ")", "c", ")">>

TwoGroupsParenPattern == <<"(", "a", "(", "b", ")", "(", "c", ")", "d", ")">>

EscapedParenPattern == <<"(", "\\", ")", ")">>

UnclosedParenPattern == <<"(", "i", "n", "v", "a", "l", "i", "d">>

\* brace quantifiers with an open end and with an exact count
BraceOpenPattern == <<"a", "{", "2", ",", "}">>

BraceExactPattern == <<"a", "{", "3", "}">>

\* named references and properties, and group headers with an empty name
NamedBackrefPattern == <<"\\", "k", "<", "n", ">">>

UnicodePropertyPattern == <<"\\", "p", "{", "L", "}">>

PythonGroupRefPattern == <<"\\", "g", "<", "n", ">">>

EmptyCharNamePattern == <<"\\", "N", "{", "}">>

EmptyAngleNamePattern == <<"(", "?", "<", ">">>

EmptyPNamePattern == <<"(", "?", "P", "<", ">">>

EmptyBackrefPattern == <<"(", "?", "P", "=", ")">>

\* a closing bracket after an escaped backslash
EscapedBackslashBracketPattern == <<"[", "a", "\\", "\\", "]">>

\* named-group headers whose name holds an escaped > or the text <?
EscapedPNamePattern == <<"(", "?", "P", "<", "a", "\\", ">", "b", ">">>

EscapedAngleNamePattern == <<"(", "?", "<", "a", "\\", ">", "b", ">">>

QuestionAngleNamePattern == <<"(", "?", "<", "a", "<", "?", ">">>

\* many unclosed brackets
UnclosedBracketsPattern == <<"[", "[", "[", "[", "[", "[">>

\* a literal run that starts like the raw-string prefix
RawLikeLiteralPattern == <<"+", "r", "\"", "a">>

\* the fourteen names of the POSIX character classes
PosixClassNames ==
    {<<"a", "l", "n", "u", "m">>, <<"a", "l", "p", "h", "a">>,
     <<"a", "s", "c", "i", "i">>, <<"b", "l", "a", "n", "k">>,
     <<"c", "n", "t", "r", "l">>, <<"d", "i", "g", "i", "t">>,
     <<"g", "r", "a", "p", "h">>, <<"l", "o", "w", "e", "r">>,
     <<"p", "r", "i", "n", "t">>, <<"p", "u", "n", "c", "t">>,
     <<"s", "p", "a", "c", "e">>, <<"u", "p", "p", "e", "r">>,
     <<"w", "o", "r", "d">>, <<"x", "d", "i", "g", "i", "t">>}

\* names that are no POSIX character class
OtherClassNames == {<<"f", "o", "o">>, <<"d">>, <<"A", "l", "p", "h", "a">>}

\* the bracket tokens [[:name:]] and [x[[:name:]]
PosixClassTokens ==
    UNION {{<<"[", "[", ":">> \o name \o <<":", "]", "]">>,
            <<"[", "x", "[", "[", ":">> \o name \o <<":", "]", "]">>} :
              name \in PosixClassNames \cup OtherClassNames}

SamplePatterns ==
    {EscapedBackslashBracketPattern,
     EscapedPNamePattern,
     EscapedAngleNamePattern,
     QuestionAngleNamePattern,
     UnclosedBracketsPattern,
     RawLikeLiteralPattern,
     BraceOpenPattern,
     BraceExactPattern,
     NamedBackrefPattern,
     UnicodePropertyPattern,
     PythonGroupRefPattern,
     EmptyCharNamePattern,
     EmptyAngleNamePattern,
     EmptyPNamePattern,
     EmptyBackrefPattern,
     NestedParenPattern,
     TwoGroupsParenPattern,
     EscapedParenPattern,
     UnclosedParenPattern,
     BracketFirstPattern,
     PosixClassPattern,
     NamedAnglePattern,
     NamedPPattern,
     EscapedBracketPattern,
     UnterminatedPattern,
     NegatedClassPattern,
     BracePattern,
     EscapedBracePattern,
     JsFlagsPattern,
     JsEmptyBodyPattern,
     PythonRawPattern,
     PythonBackrefPattern,
     UnicodeEscapePattern,
     LongUnicodeEscapePattern,
     HexEscapePattern,
     HexPairPattern,
     NamedCharPattern,
     PossessivePattern,
     LookbehindPattern,
     NegLookbehindPattern,
     AtomicPattern,
     LookaheadPattern,
     NonCapturingPattern}

\* every sample cut short at every length: the truncated constructs
Truncations == UNION {{SubSeq(s, 1, n) : n \in 0 .. Len(s)} : s \in SamplePatterns}

\* the characters of the exhaustively enumerated short patterns
Alphabet == {"[", "]", "\\", "{", "}", "(", ")", "?", "+", "<", "/", "a"}

\* the longest exhaustively enumerated pattern
MaxLen == 3

ShortPatterns == UNION {[1 .. n -> Alphabet] : n \in 0 .. MaxLen}

Patterns == ShortPatterns \cup SamplePatterns \cup Truncations \cup PosixClassTokens

----------------------------------------------------------------------------
(* One call of TokenizeRegex as a state machine: the pre-pass, one step    *)
(* per iteration of the scan loop, the final flush.                        *)

NoScan == [kind |-> "none", start |-> 0, end |-> -1]

\* the call FindClosingBracket(pattern, i) or FindClosingCurlyBrace(pattern, i)
\* that the iteration at cursor k makes, with the value of its local `end`
ScanOf(p, k) ==
    IF At(p, k) = "[" THEN [kind |-> "bracket", start |-> k, end |-> FindClosingBracket(p, k)]
    ELSE IF At(p, k) = "{" THEN [kind |-> "brace", start |-> k, end |-> FindClosingCurlyBrace(p, k)]
    ELSE NoScan

\* the indices that the scan s reads in its loop: from start + 1 up to the
\* closer it returns, or up to the end of the pattern when it returns -1
Scanned(p, s) ==
    IF s.kind = "none" THEN {}
    ELSE (s.start + 1) .. (IF s.end >= 0 THEN s.end ELSE Len(p) - 1)

\* the statements before the scan loop
Prepass(d, p) ==
    CASE d = "js" -> JsPrepass(p)
      [] d = "python" -> PythonPrepass(p)
      [] OTHER -> [pattern |-> p, tokens |-> <<>>]

\* the format names tried: the registered ones on every pattern, the others
\* on the sample patterns
Calls ==
    (Dialects \X Patterns) \cup ((FormatNames \ Dialects) \X SamplePatterns)

\* ExplainRegex(pattern, formatName) has been called
Init ==
    /\ \E call \in Calls : formatName = call[1] /\ input = call[2]
    /\ dialect = "none"
    /\ features = <<>>
    /\ pattern = input
    /\ tokens = <<>>
    /\ currentToken = <<>>
    /\ i = 0
    /\ scan = NoScan
    /\ visits = <<>>
    /\ explanations = <<>>
    /\ pc = "call"

\* the format is looked up by name and its feature table is reported
Resolve ==
    /\ pc = "call"
    /\ dialect' = GetFormat(formatName)
    /\ features' = [f \in QueriedFeatures |-> HasFeature(GetFormat(formatName), f)]
    /\ pc' = "start"
    /\ UNCHANGED <<formatName, input, pattern, tokens, currentToken, i, scan,
                   visits, explanations>>

Begin ==
    /\ pc = "start"
    /\ pattern' = Prepass(dialect, input).pattern
    /\ tokens' = Prepass(dialect, input).tokens
    /\ visits' = [j \in 1 .. Len(Prepass(dialect, input).pattern) |-> 0]
    /\ pc' = "scan"
    /\ UNCHANGED <<formatName, dialect, features, input, currentToken, i, scan,
                   explanations>>

\* one iteration of the scan loop. visits counts, for every position, the
\* reads of the cursor and of the closing-bracket or closing-brace scan of
\* the iteration; the name scans of the group branch and the class check of
\* the POSIX bracket branch are not counted, so the count is a lower bound
Step(d, r) ==
    /\ pc = "scan"
    /\ dialect = d
    /\ i < Len(pattern)
    /\ i' = r.i
    /\ currentToken' = r.currentToken
    /\ tokens' = r.tokens
    /\ scan' = ScanOf(pattern, i)
    /\ visits' = [j \in 1 .. Len(pattern) |->
                     visits[j] + (IF j - 1 = i THEN 1 ELSE 0)
                               + (IF j - 1 \in Scanned(pattern, ScanOf(pattern, i))
                                  THEN 1 ELSE 0)]
    /\ UNCHANGED <<formatName, dialect, features, input, pattern, explanations, pc>>

GoStep == Step("go", GoIter(pattern, i, currentToken, tokens))

PcreStep == Step("pcre", PcreIter(pattern, i, currentToken, tokens))

PosixStep == Step("posix", PosixIter(pattern, i, currentToken, tokens))

JsStep == Step("js", JsIter(pattern, i, currentToken, tokens))

PythonStep == Step("python", PythonIter(pattern, i, currentToken, tokens))

\* the loop has ended: the last literal run is emitted and the tokens returned
Finish ==
    /\ pc = "scan"
    /\ i >= Len(pattern)
    /\ tokens' = Flush([cur |-> currentToken, toks |-> tokens]).toks
    /\ currentToken' = <<>>
    /\ pc' = "done"
    /\ UNCHANGED <<formatName, dialect, features, input, pattern, i, scan,
                   visits, explanations>>

\* a direct call FindClosingParenthesis(input, k) at an opening parenthesis
ParenScan ==
    /\ pc = "start"
    /\ \E k \in 0 .. (Len(input) - 1) :
          /\ At(input, k) = "("
          /\ scan' = [kind |-> "paren", start |-> k,
                      end |-> FindClosingParenthesis(input, k)]
    /\ pc' = "paren"
    /\ UNCHANGED <<formatName, dialect, features, input, pattern, tokens,
                   currentToken, i, visits, explanations>>

\* a direct call ExplainToken(input) on an arbitrary string
ExplainInput ==
    /\ pc = "start"
    /\ explanations' = << ExplainToken(dialect, input) >>
    /\ pc' = "token"
    /\ UNCHANGED <<formatName, dialect, features, input, pattern, tokens,
                   currentToken, i, scan, visits>>

\* the loop of ExplainRegex over the tokens that TokenizeRegex returned
Explain ==
    /\ pc = "done"
    /\ explanations' = [n \in 1 .. Len(tokens) |-> ExplainToken(dialect, tokens[n])]
    /\ pc' = "explained"
    /\ UNCHANGED <<formatName, dialect, features, input, pattern, tokens,
                   currentToken, i, scan, visits>>

Next ==
    \/ Resolve
    \/ ParenScan
    \/ ExplainInput
    \/ Begin
    \/ GoStep
    \/ PcreStep
    \/ PosixStep
    \/ JsStep
    \/ PythonStep
    \/ Finish
    \/ Explain

Spec == Init /\ [][Next]_vars

\* the same call with the scheduling made explicit: the function runs to its end
FairSpec == Spec /\ WF_vars(Next)

----------------------------------------------------------------------------
(* Properties *)

Done == pc = "done"

\* the string pre starts at index k of p
HasPrefixAt(p, k, pre) == k + Len(pre) <= Len(p) /\ Slice(p, k, k + Len(pre)) = pre

\* no character c in p from index k on
NoneFrom(p, k, c) == \A j \in k .. (Len(p) - 1) : At(p, j) # c

\* the input has the /.../ envelope that the JS tokenizer strips
JsEnvelope(p) == Len(p) > 2 /\ At(p, 0) = "/" /\ \E j \in 1 .. (Len(p) - 1) : At(p, j) = "/"

JsLastSlash(p) == CHOOSE j \in 1 .. (Len(p) - 1) : At(p, j) = "/" /\ NoneFrom(p, j + 1, "/")

\* C1: concatenating the tokens in order gives back the pattern: the whole
\* input for go, pcre, posix and python (raw prefix and inline flags tokens
\* included); for js the tokens after the synthesized "/flags" token give the
\* text between the enclosing slashes, or the whole input without envelope.
C1_Coverage ==
    Done =>
        IF dialect = "js" /\ JsEnvelope(input)
        THEN LET last == JsLastSlash(input)
                 body == Slice(input, 1, last)
             IN  IF last < Len(input) - 1
                 THEN /\ Len(tokens) >= 1
                      /\ tokens[1] = <<"/">> \o Slice(input, last + 1, Len(input))
                      /\ Concat(Tail(tokens)) = body
                 ELSE Concat(tokens) = body
        ELSE Concat(tokens) = input

C1_Witness ==
    /\ Done
    /\ dialect = "js"
    /\ input = JsFlagsPattern
    /\ Len(tokens) = 2
    /\ Concat(Tail(tokens)) = <<"a", "b", "c">>

\* C2: every iteration of the scan loop leaves the cursor at least one
\* position further and never past the end of the pattern, and a call that
\* has entered the scan loop reaches its end.
C2_CursorAdvances ==
    /\ [][(pc = "scan" /\ pc' = "scan") => (i' >= i + 1 /\ i' <= Len(pattern))]_vars
    /\ (pc = "scan") ~> Done

\* a failed bracket scan has fallen through and the cursor is one further
C2_Witness ==
    /\ pc = "scan"
    /\ scan.kind = "bracket"
    /\ scan.end = -1
    /\ i = scan.start + 1

\* C3: every token has at least one character, and the token sequence is
\* empty exactly when the input is the empty string.
C3_NonEmpty ==
    /\ \A n \in 1 .. Len(tokens) : Len(tokens[n]) >= 1
    /\ Done => (tokens = <<>> <=> input = <<>>)

\* the JS input //g: an empty body, one token
C3_Witness ==
    /\ Done
    /\ dialect = "js"
    /\ input = JsEmptyBodyPattern
    /\ pattern = <<>>
    /\ Len(tokens) = 1

\* a (?P< header at k with no closing >
TruncatedP(p, k) == HasPrefixAt(p, k, <<"(", "?", "P", "<">>) /\ NoneFrom(p, k + 4, ">")

\* a (?< header at k (not a lookbehind) with no closing >
TruncatedAngle(p, k) ==
    /\ HasPrefixAt(p, k, <<"(", "?", "<">>)
    /\ ~HasPrefixAt(p, k, <<"(", "?", "<", "=">>)
    /\ ~HasPrefixAt(p, k, <<"(", "?", "<", "!">>)
    /\ NoneFrom(p, k + 3, ">")

\* a (?P= at k with no closing )
TruncatedBackref(p, k) == HasPrefixAt(p, k, <<"(", "?", "P", "=">>) /\ NoneFrom(p, k + 4, ")")

\* C4: a truncated compound construct costs exactly one character: an
\* unclosed [ or { goes to the literal run, a named-group header without its
\* closing delimiter gives the bare token "(", and the scan resumes at the
\* next position.
C4_TruncatedCostsOne ==
    [][(pc = "scan" /\ pc' = "scan") =>
        LET char == At(pattern, i)
            flushed == IF currentToken = <<>> THEN tokens ELSE Append(tokens, currentToken)
        IN  /\ (char \in {"[", "{"} /\ scan'.end = -1) =>
                    /\ i' = i + 1
                    /\ currentToken' = <<char>>
                    /\ tokens' = flushed
            /\ (\/ TruncatedP(pattern, i)
                \/ TruncatedAngle(pattern, i)
                \/ (dialect = "python" /\ TruncatedBackref(pattern, i))) =>
                    /\ i' = i + 1
                    /\ currentToken' = <<>>
                    /\ tokens' = Append(flushed, <<"(">>)
      ]_vars

\* the Go tokenizer just after the bare "(" of a (?P< header that never closes
C4_Witness ==
    /\ pc = "scan"
    /\ dialect = "go"
    /\ TruncatedP(pattern, 0)
    /\ i = 1
    /\ tokens = << <<"(">> >>

\* C5: the Go tokenizer gives the single class token []abc] for []abc]
C5_BracketFirstOneToken ==
    (Done /\ dialect = "go" /\ input = BracketFirstPattern) => tokens = <<BracketFirstPattern>>

\* C6: a ] right after the opening [ is a member and not the closer: the
\* closing-bracket scan returns an index after it, or not-found
C6_FirstBracketLiteral ==
    (/\ scan.kind = "bracket"
     /\ scan.start + 1 < Len(pattern)
     /\ At(pattern, scan.start + 1) = "]") => (scan.end > scan.start + 1 \/ scan.end = -1)

C8_PosixClassOneToken ==
    (Done /\ dialect = "posix" /\ input = PosixClassPattern) => tokens = <<PosixClassPattern>>

\* C9: on (?<name>abc) the Go tokenizer starts with the bare "(" and has no
\* (?<name> token, the PCRE tokenizer returns (?<name>, abc, )
C9_DialectsDiverge ==
    (Done /\ input = NamedAnglePattern) =>
        /\ dialect = "go" =>
              /\ tokens[1] = <<"(">>
              /\ \A n \in 1 .. Len(tokens) : tokens[n] # SubSeq(NamedAnglePattern, 1, 8)
        /\ dialect = "pcre" =>
              tokens = <<SubSeq(NamedAnglePattern, 1, 8), <<"a", "b", "c">>, <<")">> >>

C9_Witness ==
    /\ Done
    /\ dialect = "pcre"
    /\ input = NamedAnglePattern
    /\ Len(tokens) = 3
    /\ tokens[1] = <<"(", "?", "<", "n", "a", "m", "e", ">">>

\* C10 as stated: in the Go dialect the ?<name> after the bare "(" of
\* (?<name>abc) is accumulated into a literal run, the ? is no token of its own
C10_QuestionInLiteral ==
    (Done /\ dialect = "go" /\ input = NamedAnglePattern) =>
        /\ Len(tokens) >= 2
        /\ tokens[1] = <<"(">>
        /\ HasPrefixAt(tokens[2], 0, SubSeq(NamedAnglePattern, 2, 8))
        /\ \A n \in 1 .. Len(tokens) : tokens[n] # <<"?">>

\* C10 amended: in the Go dialect the ? after the bare "(" of (?<name>abc) is
\* emitted as a single-character quantifier token, and <name>abc is
\* accumulated into a literal run
C10_QuestionIsQuantifier ==
    (Done /\ dialect = "go" /\ input = NamedAnglePattern) =>
        tokens = << <<"(">>, <<"?">>, SubSeq(NamedAnglePattern, 3, 11), <<")">> >>

C10_Witness ==
    /\ Done
    /\ dialect = "go"
    /\ input = NamedAnglePattern
    /\ Len(tokens) = 4
    /\ tokens[2] = <<"?">>

----------------------------------------------------------------------------
(* Quantifier suffixes, the JavaScript envelope, the Python prefix *)

\* one iteration of the scan loop of dialect d
Iter(d, p, k, cur, toks) ==
    CASE d = "go" -> GoIter(p, k, cur, toks)
      [] d = "pcre" -> PcreIter(p, k, cur, toks)
      [] d = "posix" -> PosixIter(p, k, cur, toks)
      [] d = "js" -> JsIter(p, k, cur, toks)
      [] d = "python" -> PythonIter(p, k, cur, toks)

\* the scan loop from cursor k to its end, with the final flush
RECURSIVE ScanFrom(_, _, _, _, _)
ScanFrom(d, p, k, cur, toks) ==
    IF k >= Len(p)
    THEN Flush([cur |-> cur, toks |-> toks]).toks
    ELSE LET r == Iter(d, p, k, cur, toks)
         IN  ScanFrom(d, p, r.i, r.currentToken, r.tokens)

\* the main scan of dialect d on the text p, without any pre-pass
MainScan(d, p) == ScanFrom(d, p, 0, <<>>, <<>>)

\* the character a dialect absorbs after a quantifier, "none" if it absorbs
\* nothing
QuantifierSuffix(d) ==
    CASE d = "pcre" -> "+"
      [] d \in {"js", "python"} -> "?"
      [] OTHER -> "none"

C12_JsEnvelope ==
    (Done /\ dialect = "js") =>
        IF JsEnvelope(input)
        THEN LET last == JsLastSlash(input)
                 body == Slice(input, 1, last)
             IN  IF last < Len(input) - 1
                 THEN tokens = << <<"/">> \o Slice(input, last + 1, Len(input)) >>
                                   \o MainScan("js", body)
                 ELSE tokens = MainScan("js", body)
        ELSE tokens = MainScan("js", input)

\* JavaScript has tokenized /abc/g: a flags token and the body
C12_Witness ==
    /\ Done
    /\ dialect = "js"
    /\ input = SubSeq(JsFlagsPattern, 1, 6)
    /\ tokens = << <<"/", "g">>, <<"a", "b", "c">> >>

\* the input starts with a raw-string prefix r" r' R" R'
PythonRawPrefixed(p) ==
    Len(p) >= 2 /\ p[1] \in {"r", "R"} /\ p[2] \in {"\"", "'"}

\* p starts with (? and its first ) ends a non-empty run of flag letters
PythonFlagsGroup(p) ==
    /\ HasPrefixAt(p, 0, <<"(", "?">>)
    /\ \E e \in 3 .. (Len(p) - 1) :
          /\ At(p, e) = ")"
          /\ \A j \in 2 .. (e - 1) : At(p, j) \in PythonFlagLetters

\* C13: the Python pre-pass emits a leading raw-string prefix (r" r' R" R') as
\* a first token of its own, then emits a leading (?flags) group as a token of
\* its own exactly when the group has at least one interior character and
\* every interior character is one of a i L m s u x; otherwise nothing is
\* stripped and the group is tokenized by the main scan.
C13_PythonPrepass ==
    (Done /\ dialect = "python") =>
        LET rawTokens == IF PythonRawPrefixed(input) THEN << SubSeq(input, 1, 2) >> ELSE <<>>
            p1 == IF PythonRawPrefixed(input) THEN SubSeq(input, 3, Len(input)) ELSE input
            close == IndexByte(p1, ")")
        IN  IF PythonFlagsGroup(p1)
            THEN tokens = rawTokens \o << Slice(p1, 0, close + 1) >>
                            \o MainScan("python", Slice(p1, close + 1, Len(p1)))
            ELSE tokens = rawTokens \o MainScan("python", p1)

\* Python has tokenized r"(?i)a+? : the prefix, the flags group, the rest
C13_Witness ==
    /\ Done
    /\ dialect = "python"
    /\ input = PythonRawPattern
    /\ Len(tokens) = 4
    /\ tokens[1] = <<"r", "\"">>
    /\ tokens[2] = <<"(", "?", "i", ")">>

----------------------------------------------------------------------------
(* The feature tables and the format registry *)

\* the features a dialect is stated to support
StatedFeatures(d) ==
    CASE d = "pcre" -> FeatureKeys
      [] d = "posix" -> {"backreference"}
      [] d = "go" -> {"lookahead", "named_group", "unicode_class", "backreference",
                      "named_backref"}
      [] d \in {"js", "python"} ->
             {"lookahead", "lookbehind", "named_group", "unicode_class",
              "backreference", "named_backref"}

\* C16: HasFeature is a fixed total mapping: PCRE answers true for all ten
\* feature keys, POSIX only for backreference, Go exactly for lookahead,
\* named_group, unicode_class, backreference and named_backref, JavaScript
\* and Python exactly for those five and lookbehind; any other key, such as
\* "nonexistent", is answered false by every dialect.
C16_FeatureTable ==
    pc # "call" =>
        /\ DOMAIN features = QueriedFeatures
        /\ \A f \in QueriedFeatures : features[f] = (f \in StatedFeatures(dialect))
        /\ \A d \in Dialects : ~HasFeature(d, "nonexistent") /\ ~HasFeature(d, "")

\* the Go table has been reported: no lookbehind, nothing for an unknown key
C16_Witness ==
    /\ pc = "start"
    /\ dialect = "go"
    /\ features["lookahead"]
    /\ ~features["lookbehind"]
    /\ ~features["nonexistent"]

\* C17: GetFormat is total and case-sensitive: exactly the names go, pcre,
\* posix, js and python resolve to their own dialect, every other name (the
\* empty name, "unknown", "PCRE") resolves to the Go dialect.
C17_GetFormat ==
    pc # "call" =>
        /\ formatName \in Dialects => dialect = formatName
        /\ formatName \notin Dialects => dialect = "go"

\* the upper-case name PCRE has been resolved to the Go dialect
C17_Witness ==
    /\ pc = "start"
    /\ formatName = "PCRE"
    /\ dialect = "go"

----------------------------------------------------------------------------
(* FindClosingParenthesis *)

\* position j of p is skipped by a scan that starts at index from: it follows
\* a backslash that the scan has looked at
RECURSIVE SkippedByEscape(_, _, _)
SkippedByEscape(p, from, j) ==
    /\ j > from
    /\ At(p, j - 1) = "\\"
    /\ ~SkippedByEscape(p, from, j - 1)

\* the nesting depth after the scan from start + 1 has looked at position j
ParenDepth(p, start, j) ==
    1 + Cardinality({m \in (start + 1) .. j :
                        At(p, m) = "(" /\ ~SkippedByEscape(p, start + 1, m)})
      - Cardinality({m \in (start + 1) .. j :
                        At(p, m) = ")" /\ ~SkippedByEscape(p, start + 1, m)})

\* the positions where a scan from start + 1 finds the depth back at zero
ParenClosers(p, start) ==
    {j \in (start + 1) .. (Len(p) - 1) :
        /\ At(p, j) = ")"
        /\ ~SkippedByEscape(p, start + 1, j)
        /\ ParenDepth(p, start, j) = 0}

\* C18: FindClosingParenthesis(pattern, start) scans from start + 1, keeps
\* the nesting depth, skips the character after each unescaped backslash, and
\* returns the index of the first ) that brings the depth to zero, or -1 if
\* there is none: 6 for (a(b)c), 3 for (\)), -1 for (invalid.
C18_ClosingParenthesis ==
    pc = "paren" =>
        /\ IF ParenClosers(input, scan.start) = {}
           THEN scan.end = -1
           ELSE /\ scan.end \in ParenClosers(input, scan.start)
                /\ \A j \in ParenClosers(input, scan.start) : scan.end <= j
        /\ (input = NestedParenPattern /\ scan.start = 0) => scan.end = 6
        /\ (input = EscapedParenPattern /\ scan.start = 0) => scan.end = 3
        /\ (input = UnclosedParenPattern /\ scan.start = 0) => scan.end = -1

\* the escaped ) of (\)) has been skipped and the second ) returned
C18_Witness ==
    /\ pc = "paren"
    /\ input = EscapedParenPattern
    /\ scan = [kind |-> "paren", start |-> 0, end |-> 3]

----------------------------------------------------------------------------
(* ExplainToken *)

\* the strings that ExplainToken has been called on
ExplainedTokens ==
    IF pc = "explained" THEN tokens
    ELSE IF pc = "token" THEN <<input>>
    ELSE <<>>

\* C14: ExplainToken of every dialect is total: for every token the tokenizer
\* emits, and for every other string it is called on, it returns an
\* explanation and never indexes or slices out of range (so for (?<>, \k,
\* \x4 and \u).
C14_ExplainTotal ==
    /\ Len(explanations) = Len(ExplainedTokens)
    /\ \A n \in 1 .. Len(explanations) : explanations[n] # Panic

\* PCRE has explained the token (?<> : a named group with the empty name
C14_Witness ==
    /\ pc = "explained"
    /\ dialect = "pcre"
    /\ input = EmptyAngleNamePattern
    /\ tokens = <<EmptyAngleNamePattern>>
    /\ explanations =
          << [format |-> "Start of a named capturing group called '%s'",
              args |-> << <<>> >>] >>

\* the positions of the commas in a brace content
Commas(content) == {k \in 1 .. Len(content) : content[k] = ","}

\* C15: in every dialect the explanation of a brace token {m,n} says
\* "between m and n", that of {m,} says "at least m" and that of {n} says
\* "exactly n".
C15_BraceExplanation ==
    \A n \in 1 .. Len(ExplainedTokens) :
        LET token == ExplainedTokens[n]
            content == SubSeq(token, 2, Len(token) - 1)
            k == CHOOSE c \in Commas(content) : TRUE
            low == SubSeq(content, 1, k - 1)
            high == SubSeq(content, k + 1, Len(content))
        IN  (Len(token) >= 2 /\ Head(token) = "{" /\ token[Len(token)] = "}") =>
                /\ (Commas(content) = {}) =>
                       explanations[n] =
                           [format |-> "Matches exactly %s occurrences of the preceding element",
                            args |-> <<content>>]
                /\ (Cardinality(Commas(content)) = 1 /\ high = <<>>) =>
                       explanations[n] =
                           [format |-> "Matches at least %s occurrences of the preceding element",
                            args |-> <<low>>]
                /\ (Cardinality(Commas(content)) = 1 /\ high # <<>>) =>
                       explanations[n] =
                           [format |-> "Matches between %s and %s occurrences of the preceding element",
                            args |-> <<low, high>>]

\* POSIX has explained the token {2,} of a{2,}
C15_Witness ==
    /\ pc = "explained"
    /\ dialect = "posix"
    /\ input = BraceOpenPattern
    /\ tokens[2] = <<"{", "2", ",", "}">>
    /\ explanations[2] =
          [format |-> "Matches at least %s occurrences of the preceding element",
           args |-> << <<"2">> >>]

\* C19 as stated: in the Python dialect a \u that is not followed by four
\* hex digits is emitted as the two-character token \u and the scan goes on
\* after it (here on the input \u00).
C19_ShortUnicodeEscape ==
    (Done /\ dialect = "python" /\ input = SubSeq(UnicodeEscapePattern, 1, 4)) =>
        /\ Len(tokens) >= 1
        /\ tokens[1] = <<"\\", "u">>

\* C20 as stated: the explanation of the token (?P=name) that the Python
\* tokenizer emits is "Backreference to the named group 'name'".
C20_BackrefExplanation ==
    (pc = "explained" /\ dialect = "python" /\ input = PythonBackrefPattern) =>
        /\ tokens = <<PythonBackrefPattern>>
        /\ explanations =
              << [format |-> "Backreference to the named group '%s'",
                  args |-> << <<"n", "a", "m", "e">> >>] >>

----------------------------------------------------------------------------
(* Explanations of the tokens that the tokenizers emit *)

\* a (?P<name> header token
IsPHeader(token) ==
    HasPrefixAt(token, 0, <<"(", "?", "P", "<">>) /\ token[Len(token)] = ">"

\* a (?<name> header token (not a lookbehind header)
IsAngleHeader(token) ==
    /\ HasPrefixAt(token, 0, <<"(", "?", "<">>)
    /\ Len(token) >= 4
    /\ token[4] \notin {"=", "!"}
    /\ token[Len(token)] = ">"

NamedGroupExplanation(name) ==
    [format |-> "Start of a named capturing group called '%s'", args |-> <<name>>]

\* C21 as stated: every named-group header token that a tokenizer emits,
\* (?P<name> in Go, PCRE and Python and (?<name> in PCRE, JavaScript and
\* Python, is explained by the same dialect as "Start of a named capturing
\* group called 'name'", name being the text between the prefix and the
\* closing >.
C21_NamedGroupExplanation ==
    pc = "explained" =>
        \A n \in 1 .. Len(tokens) :
            /\ (dialect \in {"go", "pcre", "python"} /\ IsPHeader(tokens[n])) =>
                   explanations[n] =
                       NamedGroupExplanation(SubSeq(tokens[n], 5, Len(tokens[n]) - 1))
            /\ (dialect \in {"pcre", "js", "python"} /\ IsAngleHeader(tokens[n])) =>
                   explanations[n] =
                       NamedGroupExplanation(SubSeq(tokens[n], 4, Len(tokens[n]) - 1))

\* the step flushes the pending literal run: the run becomes the next token
LiteralFlushed ==
    /\ pc = "scan"
    /\ currentToken # <<>>
    /\ Len(tokens') > Len(tokens)
    /\ tokens'[Len(tokens) + 1] = currentToken

\* C22 as stated: in every dialect a token that the tokenizer produced from
\* its literal-run buffer is explained by the literal fallback, "Matches the
\* character 'c' literally" for one character and "Matches the string 's'
\* literally" for more; the JavaScript flags description and the Python
\* raw-string description are never given to such a token.
C22_LiteralFallback ==
    [][LiteralFlushed =>
          ExplainToken(dialect, currentToken) =
              [format |-> IF Len(currentToken) = 1
                          THEN "Matches the character '%s' literally"
                          ELSE "Matches the string '%s' literally",
               args |-> <<currentToken>>]]_vars

\* C23 as stated: literal-run tokens are maximal: inside the scan loop a
\* pending literal run is flushed only in an iteration that emits a compound
\* construct or metacharacter token right after it, so that no two
\* consecutive tokens are both literal runs.
C23_LiteralRunsMaximal ==
    [][(LiteralFlushed /\ pc' = "scan") =>
          /\ Len(tokens') = Len(tokens) + 2
          /\ currentToken' = <<>>]_vars



(***************************************************************************)
(* Escaped backslashes before a closer                                     *)
(***************************************************************************)

\* C24: FindClosingBracket skips a "]" only when an unescaped backslash
\* precedes it: in the five characters [ a \ \ ] the two backslashes are an
\* escaped pair, so the scan from the opening bracket returns the "]" at
\* index 4 as the closer.
C24_EscapedBackslashPairCloses ==
    (/\ scan.kind = "bracket"
     /\ pattern = EscapedBackslashBracketPattern
     /\ scan.start = 0)
        => scan.end = 4


(***************************************************************************)
(* Where a named-group header ends                                         *)
(***************************************************************************)

\* the index in the header token where the group name starts
NameStart(token) == IF IsPHeader(token) THEN 4 ELSE 3

\* the scan step emits a named-group header token that starts at the cursor
HeaderEmitted ==
    /\ pc = "scan"
    /\ Len(tokens') > Len(tokens)
    /\ LET token == tokens'[Len(tokens')]
       IN  /\ IsPHeader(token) \/ IsAngleHeader(token)
           /\ i' = i + Len(token)

\* C25 as stated: a named-group header ends at the first ">" after the prefix
\* that is not escaped by a backslash, so an escaped ">" inside the name does
\* not end the header.
C25_HeaderEndsAtUnescapedAngle ==
    [][HeaderEmitted =>
          LET from == i + NameStart(tokens'[Len(tokens')])
          IN  /\ At(pattern, i' - 1) = ">"
              /\ ~SkippedByEscape(pattern, from, i' - 1)
              /\ \A m \in from .. (i' - 2) :
                    At(pattern, m) = ">" => SkippedByEscape(pattern, from, m)]_vars

\* C25 amended: a named-group header token is the text from the prefix to the
\* first ">" after the prefix, whether or not a backslash precedes that ">".
C25_HeaderEndsAtFirstAngle ==
    [][HeaderEmitted =>
          LET token == tokens'[Len(tokens')]
              from == i + NameStart(token)
          IN  /\ token = Slice(pattern, i, i')
              /\ At(pattern, i' - 1) = ">"
              /\ \A m \in from .. (i' - 2) : At(pattern, m) # ">"]_vars

\* the header of (?P<a\>b> ends at the escaped ">"
C25_Witness ==
    /\ Done
    /\ dialect = "go"
    /\ input = EscapedPNamePattern
    /\ tokens[1] = <<"(", "?", "P", "<", "a", "\\", ">">>


(***************************************************************************)
(* POSIX character classes                                                 *)
(***************************************************************************)

\* the token is a bracket token with an inner marker [[:name:]] : the first
\* [[: is followed, after a non-empty name, by the first :]]
HasClassMarker(token) ==
    /\ HasPrefix(token, <<"[">>)
    /\ HasSuffix(token, <<"]">>)
    /\ Index(token, <<"[", "[", ":">>) >= 0
    /\ Index(token, <<":", "]", "]">>) > Index(token, <<"[", "[", ":">>) + 3

\* the name inside the marker
ClassMarkerName(token) ==
    Slice(token, Index(token, <<"[", "[", ":">>) + 3, Index(token, <<":", "]", "]">>))

\* C26: POSIX ExplainToken of a bracket token that contains the inner marker
\* [[:name:]] returns the canned description of the class for the fourteen
\* names alnum, alpha, ascii, blank, cntrl, digit, graph, lower, print, punct,
\* space, upper, word and xdigit, and the "Unknown POSIX character class"
\* description with the name for every other non-empty name.
C26_PosixClassDescriptions ==
    /\ DOMAIN PosixClasses = PosixClassNames
    /\ (pc = "token" /\ dialect = "posix" /\ HasClassMarker(input)) =>
          LET name == ClassMarkerName(input)
          IN  IF name \in PosixClassNames
              THEN explanations[1] = [format |-> PosixClasses[name], args |-> <<>>]
              ELSE explanations[1] =
                      [format |-> "Unknown POSIX character class '[:%s:]'",
                       args |-> <<name>>]

\* [[:alpha:]] is explained with the description of the class
C26_Witness ==
    /\ pc = "token"
    /\ dialect = "posix"
    /\ input = <<"[", "[", ":", "a", "l", "p", "h", "a", ":", "]", "]">>
    /\ explanations[1] = [format |-> "Matches any alphabetic character (a-z, A-Z)",
                          args |-> <<>>]


(***************************************************************************)
(* The work of one TokenizeRegex call                                      *)
(***************************************************************************)

\* the closing scans that the loop starts
ScanKinds == {"bracket", "brace"}

\* the visits that a linear scan makes to one position: the cursor and one
\* closing scan of each kind
VisitBound == 1 + Cardinality(ScanKinds)

\* C27: during one TokenizeRegex call every character position is visited a
\* bounded number of times that does not depend on the length of the
\* pattern, the closing-bracket and closing-brace scans counted, so that the
\* total number of visits is linear, also for a pattern of many unclosed "[".
C27_BoundedVisits ==
    \A j \in 1 .. Len(visits) : visits[j] <= VisitBound


(***************************************************************************)
(* Escape tokens                                                           *)
(***************************************************************************)

\* the dialects whose escape branch has no longer form
TwoCharEscapeDialects == {"go", "pcre", "posix", "js"}

\* the explanations of the branches that read a name, a property or hex
\* digits out of the escape sequence
ReadingFormats ==
    {"Backreference to the named group '%s'",
     "Matches a character with the unicode property '%s'",
     "Matches a character without the unicode property '%s'",
     "Matches a character with the unicode property '%s' (requires u flag)",
     "Matches a character without the unicode property '%s' (requires u flag)",
     "Matches the Unicode character U+%s",
     "Matches the character with hex code %s"}

\* the scan step is at a backslash that has a character after it
AtEscape ==
    /\ pc = "scan"
    /\ dialect \in TwoCharEscapeDialects
    /\ i + 1 < Len(pattern)
    /\ At(pattern, i) = "\\"

\* C28: in Go, PCRE, POSIX and JavaScript every escape token emitted is
\* exactly two characters, the backslash and the character after it, so \k<name>,
\* \p{...}, \uHHHH and \xHH are never one token and no token of the tokenizer
\* is explained by the branches that read a name, a property or hex digits.
C28_TwoCharacterEscapes ==
    /\ [][AtEscape =>
             /\ Len(tokens') > Len(tokens)
             /\ tokens'[Len(tokens')] = <<"\\", At(pattern, i + 1)>>
             /\ i' = i + 2]_vars
    /\ [](pc = "explained" /\ dialect \in TwoCharEscapeDialects =>
             \A n \in 1 .. Len(tokens) :
                 HasPrefix(tokens[n], <<"\\">>) =>
                     /\ Len(tokens[n]) <= 2
                     /\ explanations[n].format \notin ReadingFormats)

\* A in JavaScript: the escape token is \u and the digits are a literal
C28_Witness ==
    /\ pc = "explained"
    /\ dialect = "js"
    /\ input = UnicodeEscapePattern
    /\ tokens = << <<"\\", "u">>, <<"0", "0", "4", "1">> >>
    /\ explanations[1] = [format |-> "Invalid Unicode escape sequence", args |-> <<>>]


(***************************************************************************)
(* Tokens and the feature table                                            *)
(***************************************************************************)

\* the feature that the construct-specific token stands for, "" for a token
\* of every dialect
FeatureOf(token) ==
    IF token \in {<<"(", "?", "<", "=">>, <<"(", "?", "<", "!">>} THEN "lookbehind"
    ELSE IF token = <<"(", "?", ">">> THEN "atomic_group"
    ELSE IF token \in {<<"*", "+">>, <<"+", "+">>, <<"?", "+">>} THEN "possessive"
    ELSE IF IsPHeader(token) \/ IsAngleHeader(token) THEN "named_group"
    ELSE IF token \in {<<"(", "?", "=">>, <<"(", "?", "!">>} THEN "lookahead"
    ELSE ""

\* C29: a tokenizer emits a construct-specific token only if the feature
\* table of its dialect reports the construct: a lookbehind header (?<= or
\* (?<! only with lookbehind, the atomic header (?> only with atomic_group, a
\* possessive quantifier *+ ++ ?+ only with possessive, a named-group header
\* only with named_group, a lookahead header (?= or (?! only with lookahead.
C29_TokensWithinFeatures ==
    \A n \in 1 .. Len(tokens) :
        FeatureOf(tokens[n]) # "" => HasFeature(dialect, FeatureOf(tokens[n]))

\* JavaScript reports lookbehind and emits the header (?<=
C29_Witness ==
    /\ Done
    /\ dialect = "js"
    /\ input = LookbehindPattern
    /\ tokens[1] = <<"(", "?", "<", "=">>
    /\ HasFeature("js", "lookbehind")


(***************************************************************************)
(* POSIX and Go                                                            *)
(***************************************************************************)

\* the pattern has no "(?"
NoGroupModifier(p) == ~Contains(p, <<"(", "?">>)

====
